---- MODULE Spec2Model ----
(***************************************************************************)
(* A model of the insight pipeline of ai-finance-tracker: the cache policy *)
(* (generateInsightsWithCaching), the three prompt flows with their retry  *)
(* wrapper, parser and validator, the assembler (generateAllInsights) and  *)
(* the two route handlers that persist a generation (generate, refresh).   *)
(* Time is counted in hours.  Confidence values are scaled by 100.         *)
(***************************************************************************)
EXTENDS Integers, Sequences, FiniteSets, TLC

VARIABLES
    now,            \* the wall clock, in hours (new Date() / Date.now())
    accounts,       \* the connected accounts of the user (db.account)
    transactions,   \* the user's transaction rows (db.transaction)
    insightStore,   \* the user's insight rows, in insertion order (db.insight)
    response,       \* the last response a route handler returned
    outcome,        \* what the last request saw and did (see Outcome)
    lastFresh,      \* the time of the last fromCache=false response of generate
    probe           \* input and output of the pure function under study

vars == <<now, accounts, transactions, insightStore, response, outcome, lastFresh, probe>>

----------------------------------------------------------------------------
(* Bounds of the model.                                                    *)

MaxTime == 25
MaxTx == 16
MaxRaw == 3

(* Program constants.                                                      *)

CacheHours == 24
NewTxThreshold == 10
maxRetries == 3
retryDelay == 1000
HighSavings == 50
MediumSavings == 20
NinetyDays == 90 * 24
ThirtyDays == 30 * 24
PromptLimit == 50

NoDate == 0 - 1

----------------------------------------------------------------------------
(* JSON values as the handlers see them, tagged with their typeof.         *)

JStr(x) == [t |-> "string", s |-> x, n |-> 0]
JNum(x) == [t |-> "number", s |-> "", n |-> x]
JUndef == [t |-> "undefined", s |-> "", n |-> 0]
JNaN == [t |-> "number", s |-> "NaN", n |-> 0]

typeof(v) == v.t

IsNumber(v) == v.t = "number" /\ v.s = ""

\* JavaScript truthiness of a value: undefined, "", 0 and NaN are falsy.
Truthy(v) ==
    CASE v.t = "undefined" -> FALSE
      [] v.t = "string" -> v.s # ""
      [] v.t = "number" -> v.s = "" /\ v.n # 0
      [] OTHER -> TRUE

\* v || d
OrElse(v, d) == IF Truthy(v) THEN v ELSE d

----------------------------------------------------------------------------
(* The provider's raw completions.  A text is an optional opening fence, a *)
(* body and an optional closing fence; a body is what JSON.parse makes of  *)
(* it: a syntax error, or an object with at most one top-level key whose   *)
(* value is a list or something else.                                      *)

Text(prefix, body, suffix) == [prefix |-> prefix, body |-> body, suffix |-> suffix]

Garbage == [json |-> FALSE, key |-> "", isArray |-> FALSE, items |-> <<>>]
Obj(key, items) == [json |-> TRUE, key |-> key, isArray |-> TRUE, items |-> items]
ObjNotList(key) == [json |-> TRUE, key |-> key, isArray |-> FALSE, items |-> <<>>]

ParseError == [ok |-> FALSE, value |-> Garbage]

\* The markdown fence (three backticks), bare and with its language tag.
Fence == "'''"
FenceJson == "'''json"

\* parseAIResponse: strip one fence pair, with or without the json tag, then
\* JSON.parse; any failure is rethrown as a parse error.
parseAIResponse(text) ==
    LET fenced == text.suffix = Fence /\ text.prefix \in {FenceJson, Fence}
        bare == text.prefix = "" /\ text.suffix = ""
    IN  IF (fenced \/ bare) /\ text.body.json
        THEN [ok |-> TRUE, value |-> text.body]
        ELSE ParseError

----------------------------------------------------------------------------
(* parseAIResponse on the characters of a completion.  A text is a         *)
(* sequence of characters; JSON.parse is modelled on a small grammar:      *)
(* 1, null, a string without escapes, {} and arrays of at most one value,  *)
(* with white space around every value.                                    *)

Tick3 == <<"'", "'", "'">>
Tick3Json == <<"'", "'", "'", "j", "s", "o", "n">>

WhiteSpace == {" ", "\n"}

\* String.prototype.trim
RECURSIVE TrimStart(_)
TrimStart(chars) ==
    IF chars # <<>> /\ Head(chars) \in WhiteSpace THEN TrimStart(Tail(chars)) ELSE chars

RECURSIVE TrimEnd(_)
TrimEnd(chars) ==
    IF chars # <<>> /\ chars[Len(chars)] \in WhiteSpace
    THEN TrimEnd(SubSeq(chars, 1, Len(chars) - 1))
    ELSE chars

Trim(chars) == TrimEnd(TrimStart(chars))

\* String.prototype.startsWith, endsWith and slice(start, -end)
StartsWith(chars, part) == Len(chars) >= Len(part) /\ SubSeq(chars, 1, Len(part)) = part
EndsWith(chars, part) ==
    Len(chars) >= Len(part) /\ SubSeq(chars, Len(chars) - Len(part) + 1, Len(chars)) = part
SliceChars(chars, start, end) == SubSeq(chars, start + 1, Len(chars) - end)

\* What JSON.parse returns, or that it threw.
JValue(kind, chars, items) == [kind |-> kind, chars |-> chars, items |-> items]
SyntaxError == JValue("error", <<>>, <<>>)

\* JSON.parse
RECURSIVE JSONparseChars(_)
JSONparseChars(chars) ==
    LET Value(text) ==
            IF text = <<"1">> THEN JValue("number", text, <<>>)
            ELSE IF text = <<"n", "u", "l", "l">> THEN JValue("null", <<>>, <<>>)
            ELSE IF Len(text) < 2 THEN SyntaxError
            ELSE IF Head(text) = "\"" /\ text[Len(text)] = "\""
            THEN IF \E i \in 2..(Len(text) - 1) : text[i] \in {"\"", "\n"}
                 THEN SyntaxError
                 ELSE JValue("string", SliceChars(text, 1, 1), <<>>)
            ELSE IF Head(text) = "{" /\ text[Len(text)] = "}"
            THEN IF Trim(SliceChars(text, 1, 1)) = <<>> THEN JValue("object", <<>>, <<>>)
                 ELSE SyntaxError
            ELSE IF Head(text) = "[" /\ text[Len(text)] = "]"
            THEN IF Trim(SliceChars(text, 1, 1)) = <<>> THEN JValue("array", <<>>, <<>>)
                 ELSE LET Wrapped(item) ==
                              IF item.kind = "error" THEN SyntaxError
                              ELSE JValue("array", <<>>, <<item>>)
                      IN  Wrapped(JSONparseChars(SliceChars(text, 1, 1)))
            ELSE SyntaxError
    IN  Value(Trim(chars))

\* A variant of the stripping that knows the fence with the json tag only.
cleanedResponseTagOnly(raw) ==
    LET Stripped(trimmed) ==
            IF StartsWith(trimmed, Tick3Json) /\ EndsWith(trimmed, Tick3)
            THEN Trim(SliceChars(trimmed, 7, 3))
            ELSE trimmed
    IN  Stripped(Trim(raw))

\* Lines 55-64: the response trimmed and without its fence pair.
cleanedResponse(raw) ==
    LET Stripped(trimmed) ==
            IF StartsWith(trimmed, Tick3Json) /\ EndsWith(trimmed, Tick3)
            THEN Trim(SliceChars(trimmed, 7, 3))
            ELSE IF StartsWith(trimmed, Tick3) /\ EndsWith(trimmed, Tick3)
            THEN Trim(SliceChars(trimmed, 3, 3))
            ELSE trimmed
    IN  Stripped(Trim(raw))

\* parseAIResponse on characters: the parsed value, or the error rethrown.
parseAIResponseChars(raw) == JSONparseChars(cleanedResponse(raw))

----------------------------------------------------------------------------
(* Elements of the three response shapes.                                  *)

Categories == {"spending", "budget", "savings", "income", "general", "cost reduction"}
Priorities == {"high", "medium", "low"}

\* An element of "insights"; kind "null" stands for a JSON null in the list.
RawInsight(kind, title, description, category, priority, potentialSavings, confidence) ==
    [kind |-> kind, title |-> title, description |-> description,
     category |-> category, priority |-> priority,
     potentialSavings |-> potentialSavings, confidence |-> confidence]

NullElement == RawInsight("null", JUndef, JUndef, JUndef, JUndef, JUndef, JUndef)

\* A variant of the validator that does not look at the value of priority.
validateInsightAnyPriority(insight) ==
    /\ insight.kind = "object"
    /\ typeof(insight.title) = "string"
    /\ typeof(insight.description) = "string"
    /\ typeof(insight.category) = "string"
    /\ typeof(insight.priority) = "string"
    /\ insight.category.s \in Categories

\* validateInsight
validateInsight(insight) ==
    /\ insight.kind = "object"
    /\ typeof(insight.title) = "string"
    /\ typeof(insight.description) = "string"
    /\ typeof(insight.category) = "string"
    /\ typeof(insight.priority) = "string"
    /\ insight.category.s \in Categories
    /\ insight.priority.s \in Priorities

\* The map of generateSpendingAnalysis: the element with confidence defaulted.
WithConfidence(insight) == [insight EXCEPT !.confidence = OrElse(insight.confidence, JNum(80))]

\* Lines 69-81 of generateSpendingAnalysis: filter(validateInsight), then map.
ValidInsights(items) ==
    LET validInsights == SelectSeq(items, validateInsight)
    IN  [i \in 1..Len(validInsights) |-> WithConfidence(validInsights[i])]

\* An element of "recommendations".
RawRecommendation(category, suggestedAmount, currentAverage, reasoning, priority) ==
    [category |-> category, suggestedAmount |-> suggestedAmount,
     currentAverage |-> currentAverage, reasoning |-> reasoning, priority |-> priority]

\* An element of "opportunities".
RawOpportunity(title, description, potentialMonthlySavings, difficulty, category) ==
    [title |-> title, description |-> description,
     potentialMonthlySavings |-> potentialMonthlySavings,
     difficulty |-> difficulty, category |-> category]

----------------------------------------------------------------------------
(* The model client.  A script is what the provider does to one flow: its  *)
(* first calls fail, each with the provider error listed for it, and every *)
(* later call answers `text`.                                              *)

\* A provider failure: whether the thrown value is an Error, and which of
\* the substrings makeGroqCall looks for occur in its message.
ProviderError(isError, marks) == [isError |-> isError, marks |-> marks]

BusyMessage == "AI service is temporarily busy. Please try again in a moment."
ConfigMessage == "AI service configuration error. Please contact support."
QuotaMessage == "AI service quota exceeded. Please try again later."
ModelMessage ==
    "AI model is no longer available. Please contact support to update the model."
GenericMessage == "Failed to generate AI insights. Please try again."

\* error.message.includes(part) on a provider error.
MessageIncludes(error, part) == part \in error.marks

\* A variant of the classification that tests for quota before the API key.
ClassifyErrorQuotaFirst(error) ==
    IF ~error.isError THEN GenericMessage
    ELSE IF MessageIncludes(error, "rate_limit") THEN BusyMessage
    ELSE IF MessageIncludes(error, "quota") THEN QuotaMessage
    ELSE IF MessageIncludes(error, "invalid_api_key") THEN ConfigMessage
    ELSE IF MessageIncludes(error, "decommissioned") THEN ModelMessage
    ELSE GenericMessage

\* The catch block of makeGroqCall (lines 98-118): the message of the error
\* it throws for a provider error.
ClassifyError(error) ==
    IF ~error.isError THEN GenericMessage
    ELSE IF MessageIncludes(error, "rate_limit") THEN BusyMessage
    ELSE IF MessageIncludes(error, "invalid_api_key") THEN ConfigMessage
    ELSE IF MessageIncludes(error, "quota") THEN QuotaMessage
    ELSE IF MessageIncludes(error, "decommissioned") THEN ModelMessage
    ELSE GenericMessage

Script(errors, text) == [errors |-> errors, text |-> text]

\* n failures with the same provider error.
Failing(n, error) == [i \in 1..n |-> error]

NoText == Text("", Garbage, "")

\* makeGroqCall, for the invocation number `attempt` (from 0) of a flow.
makeGroqCall(attempt, script) ==
    IF attempt >= Len(script.errors)
    THEN [ok |-> TRUE, value |-> script.text, error |-> ""]
    ELSE [ok |-> FALSE, value |-> NoText,
          error |-> ClassifyError(script.errors[attempt + 1])]

RECURSIVE Pow2(_)
Pow2(k) == IF k = 0 THEN 1 ELSE 2 * Pow2(k - 1)

\* A variant of the backoff that grows by one base delay per attempt.
DelayedLinear(attempt, rest) ==
    [rest EXCEPT !.calls = rest.calls + 1,
                 !.delays = <<retryDelay * (attempt + 1)>> \o rest.delays]

\* Lines 137-141: the attempt failed and another one follows after a delay.
Delayed(attempt, rest) ==
    [rest EXCEPT !.calls = rest.calls + 1,
                 !.delays = <<retryDelay * Pow2(attempt)>> \o rest.delays]

\* A variant of the loop that stops one attempt early (attempt < maxRetries).
RECURSIVE RetryLoopShort(_, _)
RetryLoopShort(attempt, script) ==
    LET Attempted(r) ==
            IF r.ok
            THEN [ok |-> TRUE, value |-> r.value, error |-> "", calls |-> 1,
                  delays |-> <<>>]
            ELSE IF attempt = maxRetries - 1
            THEN [ok |-> FALSE, value |-> r.value, error |-> r.error, calls |-> 1,
                  delays |-> <<>>]
            ELSE Delayed(attempt, RetryLoopShort(attempt + 1, script))
    IN  Attempted(makeGroqCall(attempt, script))

\* A variant of the loop that keeps the first error instead of the last.
RECURSIVE RetryLoopFirstError(_, _)
RetryLoopFirstError(attempt, script) ==
    LET Attempted(r) ==
            IF r.ok
            THEN [ok |-> TRUE, value |-> r.value, error |-> "", calls |-> 1,
                  delays |-> <<>>]
            ELSE IF attempt = maxRetries
            THEN [ok |-> FALSE, value |-> r.value,
                  error |-> makeGroqCall(0, script).error, calls |-> 1, delays |-> <<>>]
            ELSE Delayed(attempt, RetryLoopFirstError(attempt + 1, script))
    IN  Attempted(makeGroqCall(attempt, script))

\* The for loop of retryGroqCall, from `attempt` on: the outcome, the number
\* of invocations made and the delays slept between them.
RECURSIVE RetryLoop(_, _)
RetryLoop(attempt, script) ==
    LET Attempted(r) ==
            IF r.ok
            THEN [ok |-> TRUE, value |-> r.value, error |-> "", calls |-> 1,
                  delays |-> <<>>]
            ELSE IF attempt = maxRetries
            THEN [ok |-> FALSE, value |-> r.value, error |-> r.error, calls |-> 1,
                  delays |-> <<>>]
            ELSE Delayed(attempt, RetryLoop(attempt + 1, script))
    IN  Attempted(makeGroqCall(attempt, script))

retryGroqCall(script) == RetryLoop(0, script)

----------------------------------------------------------------------------
(* The rate limiter (checkRateLimit) and the middleware that calls it.     *)
(* Its clock counts milliseconds.                                          *)

OneHourMs == 60 * 60 * 1000

NoConfig == [requests |-> 0, windowMs |-> 0]

\* RATE_LIMITS[endpoint], NoConfig standing for undefined.
RATE_LIMITS(endpoint) ==
    CASE endpoint = "/api/insights/generate" -> [requests |-> 5, windowMs |-> OneHourMs]
      [] endpoint = "/api/insights/refresh" -> [requests |-> 3, windowMs |-> OneHourMs]
      [] OTHER -> NoConfig

\* Math.ceil(a / b) for a >= 0 and b > 0
CeilDiv(a, b) == (a + b - 1) \div b

RateLimitResult(isAllowed, remaining, resetTime, retryAfter) ==
    [isAllowed |-> isAllowed, remaining |-> remaining, resetTime |-> resetTime,
     retryAfter |-> retryAfter]

\* cleanupExpiredEntries: the store without the entries whose window is over.
cleanupExpiredEntries(store, at) ==
    [key \in {k \in DOMAIN store : ~(at > store[k].resetTime)} |-> store[key]]

\* Line 57: the key of an entry.
RateLimitKey(userId, endpoint) == userId \o ":" \o endpoint

\* checkRateLimit called at the instant `at` on the store left by the clean-up
\* (if it ran): the result and the store after the call.  A remaining of -1
\* stands for Infinity.
checkRateLimit(store, userId, endpoint, at) ==
    LET config == RATE_LIMITS(endpoint)
        key == RateLimitKey(userId, endpoint)
    IN  IF config = NoConfig
        THEN [result |-> RateLimitResult(TRUE, 0 - 1, 0, 0), store |-> store]
        ELSE IF key \notin DOMAIN store \/ at > store[key].resetTime
        THEN [result |-> RateLimitResult(TRUE, config.requests - 1, at + config.windowMs, 0),
              store |-> (key :> [count |-> 1, resetTime |-> at + config.windowMs]) @@ store]
        ELSE IF store[key].count >= config.requests
        THEN [result |-> RateLimitResult(FALSE, 0, store[key].resetTime,
                                         CeilDiv(store[key].resetTime - at, 1000)),
              store |-> store]
        ELSE [result |-> RateLimitResult(TRUE, config.requests - (store[key].count + 1),
                                         store[key].resetTime, 0),
              store |-> [store EXCEPT ![key].count = @ + 1]]

\* Lines 27-28 of the middleware: the user id the limiter is called with.
MiddlewareUserId(hasAuthorization) ==
    IF hasAuthorization THEN "authenticated" ELSE "anonymous"

----------------------------------------------------------------------------
(* The insights of several users, for DELETE /api/insights/[id].  A row is *)
(* an id and the user it belongs to.                                       *)

OwnedRow(id, userId) == [id |-> id, userId |-> userId]

\* A variant of the look-up that does not ask for the owner.
findFirstAnyOwner(rows, insightId, userId) == {row \in rows : row.id = insightId}

\* db.insight.findFirst({ where: { id, userId } }): the rows it may return.
findFirst(rows, insightId, userId) ==
    {row \in rows : row.id = insightId /\ row.userId = userId}

\* db.insight.delete({ where: { id } }): the rows left; it throws when there
\* is no such row.
dbDelete(rows, insightId) == {row \in rows : row.id # insightId}

\* db.insight.deleteMany({ where: { userId } }) of the refresh route.
dbDeleteMany(rows, userId) == {row \in rows : row.userId # userId}

\* The answer of the delete handler.
DeleteAnswer(caller, insightId, status) ==
    [caller |-> caller, insightId |-> insightId, status |-> status]

----------------------------------------------------------------------------
(* The prompt formatter: formatTransactionsForAI.  Time is counted in      *)
(* hours; the date of an entry is printed as its day.                      *)

\* A variant of the filter that lets a zero amount through.
IsRecentExpenseOrZero(t, thirtyDaysAgo) == t.amount >= 0 /\ t.date >= thirtyDaysAgo

\* Line 15: t.amount > 0 && t.date >= thirtyDaysAgo
IsRecentExpense(t, thirtyDaysAgo) == t.amount > 0 /\ t.date >= thirtyDaysAgo

\* t placed into a list sorted by date descending, after every element
\* that is not older than it (Array.prototype.sort is stable).
RECURSIVE InsertByDate(_, _)
InsertByDate(t, sorted) ==
    IF sorted = <<>> THEN <<t>>
    ELSE IF Head(sorted).date - t.date < 0 THEN <<t>> \o sorted
         ELSE <<Head(sorted)>> \o InsertByDate(t, Tail(sorted))

\* Line 16: sort((a, b) => b.date.getTime() - a.date.getTime())
RECURSIVE SortByDateDesc(_)
SortByDateDesc(list) ==
    IF list = <<>> THEN <<>>
    ELSE InsertByDate(list[Len(list)], SortByDateDesc(SubSeq(list, 1, Len(list) - 1)))

\* A variant of the cut that keeps the last n elements.
SliceLast(list, n) ==
    IF Len(list) <= n THEN list ELSE SubSeq(list, Len(list) - n + 1, Len(list))

\* Line 17: slice(0, n)
Slice(list, n) == IF Len(list) <= n THEN list ELSE SubSeq(list, 1, n)

\* toISOString().split('T')[0]: the day an instant falls on.
DayOf(date) == date \div 24

\* Lines 18-23: the fields of a transaction that go into the prompt.
PromptEntry(t) ==
    [amount |-> t.amount,
     category |-> IF t.category = "" THEN "uncategorized" ELSE t.category,
     date |-> DayOf(t.date), name |-> t.name]

\* formatTransactionsForAI called at the instant `at`: the array it prints.
formatTransactionsForAI(txs, at) ==
    LET Printed(list) == [i \in 1..Len(list) |-> PromptEntry(list[i])]
    IN  Printed(Slice(SortByDateDesc(SelectSeq(txs, LAMBDA t :
                                         IsRecentExpense(t, at - ThirtyDays))),
                      PromptLimit))

----------------------------------------------------------------------------
(* The three flows.  Each returns whether it resolved, its list, the       *)
(* number of model calls it made and, when it failed, the message of its   *)
(* error: every failure inside the try block is rethrown as the flow's own *)
(* error.                                                                  *)

FlowOk(list, calls) == [ok |-> TRUE, value |-> list, calls |-> calls, error |-> ""]
FlowFailed(calls, error) == [ok |-> FALSE, value |-> <<>>, calls |-> calls, error |-> error]

\* The message of the error a flow throws from its catch block.
FlowError(key) ==
    CASE key = "insights" -> "Failed to generate spending analysis insights"
      [] key = "recommendations" -> "Failed to generate budget recommendations"
      [] key = "opportunities" -> "Failed to generate savings opportunities"

\* A variant of the check that takes a missing or ill-typed key for no items.
CheckedLenient(parsed, key, calls) ==
    IF ~parsed.ok THEN FlowFailed(calls, FlowError(key))
    ELSE IF parsed.value.key # key \/ ~parsed.value.isArray
    THEN FlowOk(<<>>, calls)
    ELSE FlowOk(parsed.value.items, calls)

\* The check of the top-level key of a parsed response: it must be a list.
Checked(parsed, key, calls) ==
    IF ~parsed.ok THEN FlowFailed(calls, FlowError(key))
    ELSE IF parsed.value.key # key \/ ~parsed.value.isArray
    THEN FlowFailed(calls, FlowError(key))
    ELSE FlowOk(parsed.value.items, calls)

\* What a flow does with the outcome r of its call through the retry wrapper.
Parsed(r, key) ==
    IF ~r.ok THEN FlowFailed(r.calls, FlowError(key))
    ELSE Checked(parseAIResponse(r.value), key, r.calls)

\* The body shared by the three flows: call through the retry wrapper, parse,
\* and check the top-level key.
RunFlow(txs, script, key) ==
    IF Len(txs) = 0 THEN FlowOk(<<>>, 0)
    ELSE Parsed(retryGroqCall(script), key)

\* Lines 73-81: the list of insights is validated.
Validated(flow) ==
    IF flow.ok THEN FlowOk(ValidInsights(flow.value), flow.calls) ELSE flow

\* The other two lists are returned as parsed.
generateSpendingAnalysis(txs, script) == Validated(RunFlow(txs, script, "insights"))

generateBudgetRecommendations(txs, script) == RunFlow(txs, script, "recommendations")

generateSavingsOpportunities(txs, script) == RunFlow(txs, script, "opportunities")

----------------------------------------------------------------------------
(* The assembler: generateAllInsights.                                     *)

\* `${v}` in a template literal.
TemplateText(v) ==
    CASE v.t = "string" -> v.s
      [] v.t = "undefined" -> "undefined"
      [] v.t = "number" /\ v.s = "" -> ToString(v.n)
      [] OTHER -> "NaN"

\* a - b on JSON numbers; anything else gives NaN.
Minus(a, b) == IF IsNumber(a) /\ IsNumber(b) THEN JNum(a.n - b.n) ELSE JNaN

\* v > k for a numeric literal k; undefined and NaN compare false.
Gt(v, k) == IsNumber(v) /\ v.n > k

\* Lines 274-281: a budget recommendation as an insight.
BudgetInsight(rec) ==
    RawInsight("object", JStr("Budget: " \o TemplateText(rec.category)), rec.reasoning,
               JStr("budget"), rec.priority,
               Minus(rec.currentAverage, rec.suggestedAmount), JNum(80))

\* A variant of the priority whose thresholds are inclusive.
SavingsPriorityInclusive(opp) ==
    IF IsNumber(opp.potentialMonthlySavings) /\ opp.potentialMonthlySavings.n >= HighSavings
    THEN "high"
    ELSE IF IsNumber(opp.potentialMonthlySavings)
                /\ opp.potentialMonthlySavings.n >= MediumSavings
    THEN "medium"
    ELSE "low"

\* Line 287: the priority of a savings opportunity.
SavingsPriority(opp) ==
    IF Gt(opp.potentialMonthlySavings, HighSavings) THEN "high"
    ELSE IF Gt(opp.potentialMonthlySavings, MediumSavings) THEN "medium"
    ELSE "low"

\* Lines 283-290: a savings opportunity as an insight.
SavingsInsight(opp) ==
    RawInsight("object", opp.title, opp.description, JStr("savings"),
               JStr(SavingsPriority(opp)), opp.potentialMonthlySavings, JNum(85))

\* priorityOrder[p]: 0 stands for undefined.
priorityOrder(p) ==
    IF p.t # "string" THEN 0
    ELSE CASE p.s = "high" -> 3 [] p.s = "medium" -> 2 [] p.s = "low" -> 1 [] OTHER -> 0

\* (x.potentialSavings || 0) as a number.
SavingsOrZero(x) == IF Truthy(x.potentialSavings) THEN x.potentialSavings.n ELSE 0

\* The comparator of lines 300-310.  A NaN result (one priority undefined)
\* is read by Array.prototype.sort as +0.
Compare(a, b) ==
    LET aPriority == priorityOrder(a.priority)
        bPriority == priorityOrder(b.priority)
    IN  IF aPriority # bPriority
        THEN IF aPriority = 0 \/ bPriority = 0 THEN 0 ELSE bPriority - aPriority
        ELSE SavingsOrZero(b) - SavingsOrZero(a)

\* x placed into a sorted list, after every element it does not precede.
RECURSIVE Insert(_, _)
Insert(x, sorted) ==
    IF sorted = <<>> THEN <<x>>
    ELSE IF Compare(x, Head(sorted)) < 0 THEN <<x>> \o sorted
         ELSE <<Head(sorted)>> \o Insert(x, Tail(sorted))

\* The stable sort of a list by Compare.
RECURSIVE StableSort(_)
StableSort(list) ==
    IF list = <<>> THEN <<>>
    ELSE Insert(list[Len(list)], StableSort(SubSeq(list, 1, Len(list) - 1)))

\* All orders of a list.
Orders(list) ==
    {[i \in 1..Len(list) |-> list[f[i]]] :
        f \in {g \in [1..Len(list) -> 1..Len(list)] :
                  \A i, j \in 1..Len(list) : g[i] = g[j] => i = j}}

\* Array.prototype.sort with Compare: the stable sort when the comparator is
\* consistent (every priority is a known one); an order the engine chooses
\* when it is not.
SortOutcomes(list) ==
    IF \A i \in 1..Len(list) : priorityOrder(list[i].priority) # 0
    THEN {StableSort(list)}
    ELSE Orders(list)

\* Lines 274-297: the three lists merged into one list of insights.
AllInsights(spendingInsights, budgetRecommendations, savingsOpportunities) ==
    spendingInsights
        \o [i \in 1..Len(budgetRecommendations) |-> BudgetInsight(budgetRecommendations[i])]
        \o [i \in 1..Len(savingsOpportunities) |-> SavingsInsight(savingsOpportunities[i])]

\* A variant of the fan-in that merges the lists of the flows that resolved.
PromiseAllSettled(spending, budget, savings) ==
    [ok |-> TRUE, error |-> "",
     outcomes |-> SortOutcomes(AllInsights(spending.value, budget.value, savings.value)),
     calls |-> spending.calls + budget.calls + savings.calls]

\* Lines 267-323: Promise.all of the three flows (a rejection of any of them
\* rejects the whole), conversion, merge and sort.  No flow is cancelled, so
\* the model calls of all three are made either way.
PromiseAll(spending, budget, savings) ==
    IF spending.ok /\ budget.ok /\ savings.ok
    THEN [ok |-> TRUE, error |-> "",
          outcomes |-> SortOutcomes(AllInsights(spending.value, budget.value,
                                                savings.value)),
          calls |-> spending.calls + budget.calls + savings.calls]
    ELSE [ok |-> FALSE, error |-> "Failed to generate comprehensive insights",
          outcomes |-> {},
          calls |-> spending.calls + budget.calls + savings.calls]

\* generateAllInsights
generateAllInsights(txs, scripts) ==
    IF Len(txs) = 0 THEN [ok |-> TRUE, error |-> "", outcomes |-> {<<>>}, calls |-> 0]
    ELSE PromiseAll(generateSpendingAnalysis(txs, scripts.spending),
                    generateBudgetRecommendations(txs, scripts.budget),
                    generateSavingsOpportunities(txs, scripts.savings))

----------------------------------------------------------------------------
(* The cache policy: generateInsightsWithCaching.                          *)

\* transactions.filter(t => t.createdAt > lastGenerated)
newTransactions(txs, lastGenerated) ==
    SelectSeq(txs, LAMBDA t : t.createdAt > lastGenerated)

\* A variant of the recency test with the comparison turned round.
GeneratedRecentlyInverted(existingInsights, lastGenerated, at) ==
    /\ Len(existingInsights) > 0
    /\ lastGenerated # NoDate
    /\ lastGenerated < at - CacheHours

\* Line 344: insights exist and were generated within the last 24 hours.
GeneratedRecently(existingInsights, lastGenerated, at) ==
    /\ Len(existingInsights) > 0
    /\ lastGenerated # NoDate
    /\ lastGenerated > at - CacheHours

\* A variant of the new-transaction test that also accepts exactly 10.
FewNewTransactionsInclusive(txs, lastGenerated) ==
    /\ lastGenerated # NoDate
    /\ Len(newTransactions(txs, lastGenerated)) <= NewTxThreshold

\* Lines 354-356: a last generation exists and fewer than 10 transactions
\* were created after it (an array, even an empty one, is truthy).
FewNewTransactions(txs, lastGenerated) ==
    /\ lastGenerated # NoDate
    /\ Len(newTransactions(txs, lastGenerated)) < NewTxThreshold

\* Lines 366-374: the result of a fresh generation made at time at.
Fresh(result, at) ==
    [ok |-> result.ok, error |-> result.error, fromCache |-> FALSE,
     outcomes |-> result.outcomes, generatedAt |-> at, calls |-> result.calls]

\* Lines 345-349 and 358-362: the existing insights, as they are.
Cached(existingInsights, lastGenerated) ==
    [ok |-> TRUE, error |-> "", fromCache |-> TRUE, outcomes |-> {existingInsights},
     generatedAt |-> lastGenerated, calls |-> 0]

\* A variant of the cache policy in which 10 or more new transactions force a
\* regeneration before the age of the cache is looked at.
generateInsightsWithCachingNewFirst(txs, existingInsights, lastGenerated, scripts, at) ==
    IF FewNewTransactions(txs, lastGenerated)
    THEN Cached(existingInsights, lastGenerated)
    ELSE Fresh(generateAllInsights(txs, scripts), at)

\* A variant of the cache policy without the new-transaction clause.
generateInsightsWithCachingAgeOnly(txs, existingInsights, lastGenerated, scripts, at) ==
    IF GeneratedRecently(existingInsights, lastGenerated, at)
    THEN Cached(existingInsights, lastGenerated)
    ELSE Fresh(generateAllInsights(txs, scripts), at)

\* generateInsightsWithCaching, called at time at.
generateInsightsWithCaching(txs, existingInsights, lastGenerated, scripts, at) ==
    IF GeneratedRecently(existingInsights, lastGenerated, at)
    THEN Cached(existingInsights, lastGenerated)
    ELSE IF FewNewTransactions(txs, lastGenerated)
    THEN Cached(existingInsights, lastGenerated)
    ELSE Fresh(generateAllInsights(txs, scripts), at)

----------------------------------------------------------------------------
(* The insight store and the rows the handlers write and return.           *)

InsightFields == <<"title", "description", "category", "priority",
                   "potentialSavings", "confidence">>

JNull == [t |-> "object", s |-> "null", n |-> 0]

\* JSON.stringify of an insight: its fields in order, a field whose value is
\* undefined left out and a NaN written as null.
JSONstringify(insight) ==
    LET present == SelectSeq(InsightFields, LAMBDA k : insight[k].t # "undefined")
    IN  [i \in 1..Len(present) |->
            <<present[i], IF insight[present[i]] = JNaN THEN JNull ELSE insight[present[i]]>>]

\* JSON.parse of a stored content: a field that was left out reads undefined.
JSONparse(content) ==
    LET Value(k) == IF \E i \in 1..Len(content) : content[i][1] = k
                    THEN content[CHOOSE i \in 1..Len(content) : content[i][1] = k][2]
                    ELSE JUndef
    IN  RawInsight("object", Value("title"), Value("description"), Value("category"),
                   Value("priority"), Value("potentialSavings"), Value("confidence"))

\* The data of db.insight.create for one insight.
InsightRow(insight, createdAt) ==
    [content |-> JSONstringify(insight), type |-> insight.category.s,
     createdAt |-> createdAt]

\* A row as the handlers return it: with its parsed content.
WithParsedContent(row, parsedContent) ==
    [content |-> row.content, type |-> row.type, createdAt |-> row.createdAt,
     parsedContent |-> parsedContent]

\* db.insight.findMany({orderBy: {createdAt: 'desc'}}); rows of one instant
\* keep their insertion order.
RECURSIVE InsertByCreatedAt(_, _)
InsertByCreatedAt(row, sorted) ==
    IF sorted = <<>> THEN <<row>>
    ELSE IF row.createdAt > Head(sorted).createdAt THEN <<row>> \o sorted
         ELSE <<Head(sorted)>> \o InsertByCreatedAt(row, Tail(sorted))

RECURSIVE OrderByCreatedAtDesc(_)
OrderByCreatedAtDesc(rows) ==
    IF rows = <<>> THEN <<>>
    ELSE InsertByCreatedAt(rows[Len(rows)],
                           OrderByCreatedAtDesc(SubSeq(rows, 1, Len(rows) - 1)))

\* The include of db.account.findMany: the transactions of the last 90 days.
Last90Days(txs, at) == SelectSeq(txs, LAMBDA t : t.date >= at - NinetyDays)

----------------------------------------------------------------------------
(* Responses, and a record of what the last request did inside.            *)

Response(route, status, error, fromCache, insights, generatedAt, warning) ==
    [route |-> route, status |-> status, error |-> error, fromCache |-> fromCache,
     insights |-> insights, generatedAt |-> generatedAt, warning |-> warning]

ErrorResponse(route, status, error) ==
    Response(route, status, error, FALSE, <<>>, NoDate, FALSE)

NoResponse == ErrorResponse("none", 0, "")

\* What the last request saw and did: whether it was authenticated, the
\* time it ran, the number of stored
\* insights and the newest createdAt it read, the number of transactions
\* created after that, how generation and the store write ended, the list
\* generation computed, and the number of model calls made.
Outcome(route, authed, at, existing, lastGenerated, scripts, generation, write, computed, calls) ==
    [route |-> route, authed |-> authed, at |-> at, existing |-> existing,
     lastGenerated |-> lastGenerated, scripts |-> scripts,
     generation |-> generation, write |-> write, computed |-> computed, calls |-> calls,
     forceRefresh |-> FALSE]

\* The record of a generate request whose body was read (lines 19-21): the
\* forceRefresh of the body, false when the body has none.
WithBody(forceRefresh, record) == [record EXCEPT !.forceRefresh = forceRefresh]

NoScripts == [spending |-> "none", budget |-> "none", savings |-> "none"]

NoOutcome == Outcome("none", FALSE, 0, 0, NoDate, NoScripts, "none", "none", <<>>, 0)

\* A request that ended before any generation was attempted.
Rejected(route, authed, at, existing) ==
    Outcome(route, authed, at, existing, NoDate, NoScripts, "none", "none", <<>>, 0)

----------------------------------------------------------------------------
(* The inputs the model draws from.                                        *)

MaxFailures == 4

DiningUp == RawInsight("object", JStr("Dining up"), JStr("d"), JStr("spending"),
                       JStr("high"), JNum(150), JNum(85))
Note == RawInsight("object", JStr("Note"), JStr("n"), JStr("general"),
                   JStr("low"), JUndef, JUndef)
FooCategory == RawInsight("object", JStr("Foo"), JStr("f"), JStr("foo"),
                          JStr("high"), JNum(10), JUndef)

DiningBudget == RawRecommendation(JStr("Dining Out"), JNum(200), JNum(350),
                                  JStr("r"), JStr("medium"))
UrgentBudget == RawRecommendation(JStr("Rent"), JNum(900), JNum(1000),
                                  JStr("r"), JStr("urgent"))

CancelSubscription == RawOpportunity(JStr("Cancel"), JStr("c"), JNum(60),
                                     JStr("easy"), JStr("subscriptions"))

SpendingTexts ==
    <<Text("", Obj("insights", <<DiningUp, Note>>), ""),
      Text(FenceJson, Obj("insights", <<FooCategory, DiningUp>>), Fence),
      Text("", Obj("insights", <<>>), "")>>

BudgetTexts ==
    <<Text("", Obj("recommendations", <<DiningBudget>>), ""),
      Text("", Obj("recommendations", <<UrgentBudget>>), ""),
      Text("", Obj("recommendations", <<>>), ""),
      Text("", ObjNotList("recommendations"), "")>>

SavingsTexts ==
    <<Text("", Obj("opportunities", <<CancelSubscription>>), ""),
      Text("", Obj("opportunities", <<>>), ""),
      Text(Fence, Garbage, Fence)>>

\* Elements of a spending-analysis response the validator is studied on.
EmptyTitle == RawInsight("object", JStr(""), JStr("d"), JStr("income"),
                         JStr("medium"), JNum(5), JNum(0))
EmptyDescription == RawInsight("object", JStr("Fees"), JStr(""), JStr("cost reduction"),
                               JStr("low"), JUndef, JNum(50))
NumberTitle == RawInsight("object", JNum(7), JStr("d"), JStr("spending"),
                          JStr("high"), JUndef, JUndef)
UrgentPriority == RawInsight("object", JStr("Rent"), JStr("d"), JStr("budget"),
                             JStr("urgent"), JNum(20), JUndef)
NoPriority == RawInsight("object", JStr("Gym"), JStr("d"), JStr("savings"),
                         JUndef, JNum(20), JUndef)

RawElements == {DiningUp, Note, FooCategory, EmptyTitle, EmptyDescription, NumberTitle,
                UrgentPriority, NoPriority, NullElement}

\* The lists of at most n elements.
RECURSIVE RawLists(_)
RawLists(n) ==
    IF n = 0 THEN {<<>>}
    ELSE RawLists(n - 1)
             \cup {Append(list, e) : list \in {l \in RawLists(n - 1) : Len(l) = n - 1},
                                     e \in RawElements}

Scripts(spending, budget, savings) ==
    [spending |-> spending, budget |-> budget, savings |-> savings]

\* Provider errors: a rate limit, an exhausted quota and a network failure.
RateLimitError == ProviderError(TRUE, {"rate_limit"})
QuotaError == ProviderError(TRUE, {"quota"})
NetworkError == ProviderError(TRUE, {})

\* The provider errors makeGroqCall is studied on: an Error with any of the
\* substrings in its message, and a thrown value that is no Error.
ErrorMarks == {"rate_limit", "invalid_api_key", "quota", "decommissioned"}

ProviderErrors ==
    {ProviderError(TRUE, marks) : marks \in SUBSET ErrorMarks}
        \cup {ProviderError(FALSE, {"rate_limit"})}

\* The lists of at most n errors a flow's calls fail with before one answers.
RECURSIVE ErrorLists(_)
ErrorLists(n) ==
    IF n = 0 THEN {<<>>}
    ELSE ErrorLists(n - 1)
             \cup {Append(list, e) : list \in {l \in ErrorLists(n - 1) : Len(l) = n - 1},
                                     e \in {RateLimitError, QuotaError, NetworkError}}

\* The scripts the model client is studied on.
ClientScripts ==
    {Script(errors, SpendingTexts[1]) : errors \in ErrorLists(MaxFailures)}
        \cup {Script(<<e>>, SpendingTexts[1]) : e \in ProviderErrors}

\* The bodies a flow is studied on: a syntax error, an object without a key,
\* each key with something that is no list, and each key with a list.
FlowBodies ==
    {Garbage, Obj("", <<>>)}
        \cup {ObjNotList(key) : key \in {"insights", "recommendations", "opportunities"}}
        \cup {SpendingTexts[i].body : i \in 1..Len(SpendingTexts)}
        \cup {BudgetTexts[i].body : i \in 1..Len(BudgetTexts)}
        \cup {SavingsTexts[i].body : i \in 1..Len(SavingsTexts)}

\* The ways a completion wraps its body: bare, in a fence pair with or
\* without the json tag, and with an opening fence that is never closed.
FlowTexts ==
    {Text(wrap[1], body, wrap[2]) :
         wrap \in {<<"", "">>, <<FenceJson, Fence>>, <<Fence, Fence>>, <<FenceJson, "">>},
         body \in FlowBodies}

\* The lists the assembler is studied on.  Spending insights are what the
\* validating flow returns; budget recommendations and savings opportunities
\* are what the provider sent.
MaxOpportunities == 2

OverBudget == RawRecommendation(JStr("Groceries"), JNum(400), JNum(350),
                                JStr("r"), JStr("high"))

Opportunity(amount) ==
    RawOpportunity(JStr("Save"), JStr("s"), amount, JStr("easy"), JStr("subscriptions"))

SavingsAmounts == {JNum(0), JNum(20), JNum(21), JNum(50), JNum(51), JNum(0 - 5), JUndef}

RECURSIVE OpportunityLists(_)
OpportunityLists(n) ==
    IF n = 0 THEN {<<>>}
    ELSE OpportunityLists(n - 1)
             \cup {Append(list, Opportunity(amount)) :
                      list \in {l \in OpportunityLists(n - 1) : Len(l) = n - 1},
                      amount \in SavingsAmounts}

SpendingLists ==
    {ValidInsights(list) : list \in {<<>>, <<Note>>, <<DiningUp, Note>>, <<Note, DiningUp>>}}

BudgetLists == {<<>>, <<DiningBudget>>, <<OverBudget>>, <<DiningBudget, OverBudget>>}

AssemblerInputs ==
    (SpendingLists \X BudgetLists \X OpportunityLists(MaxOpportunities))
        \cup (SpendingLists \X {<<UrgentBudget>>} \X OpportunityLists(1))

\* The transaction lists the prompt formatter is studied on: a few
\* transactions at the edges of the filter, then a run of expenses inside the
\* window whose length is around the limit, then one more edge transaction.
\* Dates are relative to the instant of the call; names number the rows.
MaxEdge == 1

Shape(date, amount, category) == [date |-> date, amount |-> amount, category |-> category]

EdgeShapes ==
    {Shape(0 - ThirtyDays - 1, 25, "Food"), Shape(0 - ThirtyDays, 25, "Food"),
     Shape(0 - 1, 0 - 5, "Salary"), Shape(0 - 1, 0, "Food"), Shape(0 - 1, 25, ""),
     Shape(0 - ThirtyDays - 1, 0 - 5, "Salary")}

RECURSIVE EdgeLists(_)
EdgeLists(n) ==
    IF n = 0 THEN {<<>>}
    ELSE EdgeLists(n - 1)
             \cup {Append(list, shape) : list \in {l \in EdgeLists(n - 1) : Len(l) = n - 1},
                                         shape \in EdgeShapes}

\* A run of n expenses: getting newer, getting older, or all of one instant.
Run(n, pattern) ==
    [i \in 1..n |->
        Shape(CASE pattern = "newer" -> 0 - 600 + 10 * i
                [] pattern = "older" -> 0 - 10 * i
                [] OTHER -> 0 - 48,
              25, "Food")]

RunLengths == {0, PromptLimit - 1, PromptLimit, PromptLimit + 1}

\* The rows of a list of shapes, dated relative to `at`.
RowsAt(shapes, at) ==
    [i \in 1..Len(shapes) |->
        [createdAt |-> at, date |-> at + shapes[i].date, amount |-> shapes[i].amount,
         category |-> shapes[i].category, name |-> i]]

FormatterInputs ==
    {head \o Run(n, pattern) \o tail :
         head \in EdgeLists(MaxEdge), tail \in EdgeLists(1),
         n \in RunLengths, pattern \in {"newer", "older", "same"}}

\* The texts parseAIResponse is studied on: values of the small grammar, one
\* level of array around them, white space around that, and some texts that
\* are no JSON.
PlainValues ==
    {<<"1">>, <<"n", "u", "l", "l">>, <<"{", "}">>, <<"{", " ", "}">>, <<"[", "]">>,
     <<"\"", "\"">>, <<"\"", "'", "'", "'", "\"">>, <<"\"", "j", "s", "o", "n", "\"">>}

Padded(texts) ==
    {before \o text \o after :
         before \in {<<>>, <<" ">>, <<"\n">>}, after \in {<<>>, <<"\n">>}, text \in texts}

RECURSIVE NestedValues(_)
NestedValues(depth) ==
    IF depth = 0 THEN PlainValues
    ELSE NestedValues(depth - 1)
             \cup {<<"[">> \o text \o <<"]">> : text \in Padded(NestedValues(depth - 1))}

MaxDepth == 1

JsonTexts == Padded(NestedValues(MaxDepth))

NotJsonTexts == {<<>>, <<"{">>, <<"j", "s", "o", "n">>, <<"'", "'", "'">>, <<"[", "1", "1", "]">>}

\* A text between one opening fence, with or without the tag, and one closing
\* fence, with white space outside the fences.
Fenced(text, tagged, outside) ==
    outside \o (IF tagged THEN Tick3Json ELSE Tick3) \o text \o Tick3 \o outside

\* The callers and paths the middleware is studied on.  Alice and bob send
\* an authorization header; the guest sends none.  The clock is observed
\* every twenty minutes.
MaxClock == 4
MaxRequests == 7

StepMs == 20 * 60 * 1000

Callers == {"alice", "bob", "guest"}

HasAuthorization(caller) == caller # "guest"

Pathnames == {"/api/insights/generate"}

\* The users and insight ids the delete handler is studied on.  The empty
\* user is a caller that is not signed in; id 0 is a missing id.
MaxIds == 3

Users == {"alice", "bob"}

\* The provider behaviours the route handlers are run against: all flows
\* answer at once; they answer after retries; one flow exhausts its retries
\* on a rate limit, answers a non-list or answers no JSON; a dropped element
\* and an unknown budget priority; three empty lists; every call fails on the
\* quota; one flow exhausts its retries on network failures.
Scenarios ==
    {Scripts(Script(<<>>, SpendingTexts[1]), Script(<<>>, BudgetTexts[1]),
             Script(<<>>, SavingsTexts[1])),
     Scripts(Script(Failing(1, NetworkError), SpendingTexts[1]),
             Script(Failing(maxRetries, RateLimitError), BudgetTexts[1]),
             Script(<<>>, SavingsTexts[1])),
     Scripts(Script(Failing(MaxFailures, RateLimitError), SpendingTexts[1]),
             Script(<<>>, BudgetTexts[1]), Script(<<>>, SavingsTexts[1])),
     Scripts(Script(<<>>, SpendingTexts[1]), Script(<<>>, BudgetTexts[4]),
             Script(<<>>, SavingsTexts[1])),
     Scripts(Script(<<>>, SpendingTexts[1]), Script(<<>>, BudgetTexts[1]),
             Script(Failing(2, QuotaError), SavingsTexts[3])),
     Scripts(Script(<<>>, SpendingTexts[2]), Script(<<>>, BudgetTexts[2]),
             Script(<<>>, SavingsTexts[2])),
     Scripts(Script(<<>>, SpendingTexts[3]), Script(<<>>, BudgetTexts[3]),
             Script(<<>>, SavingsTexts[2])),
     Scripts(Script(Failing(MaxFailures, QuotaError), SpendingTexts[1]),
             Script(Failing(MaxFailures, QuotaError), BudgetTexts[1]),
             Script(Failing(MaxFailures, QuotaError), SavingsTexts[1])),
     Scripts(Script(<<>>, SpendingTexts[1]),
             Script(Failing(MaxFailures, NetworkError), BudgetTexts[1]),
             Script(<<>>, SavingsTexts[1]))}

\* The instants at which the system is observed: the start, and the hours
\* from the last one of the cache window on.
Instants == {t \in 0..MaxTime : t = 0 \/ t >= CacheHours - 1}

AccountIds == {"checking"}

InitialSync == {0, 1}

BatchSizes == {9, 10, 15}

----------------------------------------------------------------------------
(* The route handlers.                                                     *)

\* A variant of the precondition checks without the check for transactions.
PreconditionErrorAccountsOnly(accts, allTransactions) ==
    IF Cardinality(accts) = 0 THEN "Please connect a bank account first"
    ELSE ""

\* The precondition checks both handlers make before generating (generate
\* lines 44-57, refresh lines 38-51): the error to answer with, "" for none.
PreconditionError(accts, allTransactions) ==
    IF Cardinality(accts) = 0 THEN "Please connect a bank account first"
    ELSE IF Len(allTransactions) = 0
    THEN "No transactions found. Please wait for transactions to sync."
    ELSE ""

\* The rows of a response: created rows with their content parsed back.
CreatedRows(rows) ==
    [i \in 1..Len(rows) |-> WithParsedContent(rows[i], JSONparse(rows[i].content))]

\* The rows of the degraded response of generate (lines 120-134): rows that
\* were not stored, each with the insight it was made from.
TempRows(rows, insights) ==
    [i \in 1..Len(rows) |-> WithParsedContent(rows[i], insights[i])]

\* The catch block of generate around the store write (lines 116-135): the
\* computed insights are returned with a warning.
GenerateWriteFailed(rows, insights, generatedAt) ==
    Response("generate", 200, "", FALSE, TempRows(rows, insights), generatedAt, TRUE)

\* error.message.includes(phrase) on the message of a thrown error: the
\* phrases the handlers look for that occur in it.
Phrases(message) ==
    CASE message = BusyMessage -> {"AI service is temporarily busy"}
      [] message = QuotaMessage -> {"quota exceeded"}
      [] message = ConfigMessage -> {"configuration error"}
      [] OTHER -> {}

\* handleApiError for an Error that is no ZodError or ApiError and carries
\* no code or response: the generic answer, whatever the message.
handleApiError(message) ==
    ErrorResponse("generate", 500, "Internal Server Error")

\* The outer catch of refresh (lines 92-119).
RefreshCatch(message) ==
    IF "AI service is temporarily busy" \in Phrases(message)
    THEN ErrorResponse("refresh", 503, BusyMessage)
    ELSE IF "quota exceeded" \in Phrases(message)
    THEN ErrorResponse("refresh", 429, QuotaMessage)
    ELSE IF "configuration error" \in Phrases(message)
    THEN ErrorResponse("refresh", 500, ConfigMessage)
    ELSE ErrorResponse("refresh", 500, "Failed to refresh insights. Please try again.")

\* The store write of refresh has no catch of its own: its failure reaches the
\* handler's outer catch (lines 92-119).
RefreshWriteFailed(rows, insights, generatedAt) ==
    RefreshCatch("db.$transaction failed")

\* The rows db.insight.create is called with, one per insight.
Rows(insights, createdAt) ==
    [i \in 1..Len(insights) |-> InsightRow(insights[i], createdAt)]

\* A variant of the write that creates the rows one by one outside a
\* transaction: a failure at the last row leaves the earlier ones behind.
dbTransactionSequential(rows, dbOk) ==
    IF dbOk THEN rows ELSE SubSeq(rows, 1, Len(rows) - 1)

\* db.$transaction([...creates]): the rows the store gains, all of them when
\* the transaction commits and none when it fails.
dbTransaction(rows, dbOk) ==
    IF dbOk THEN rows ELSE <<>>

\* POST /api/insights/generate
GeneratePOST(authed, forceRefresh) ==
    \E existingInsights \in {OrderByCreatedAtDesc(insightStore)},
       allTransactions \in {Last90Days(transactions, now)} :
    \E lastGenerated \in {IF Len(existingInsights) > 0
                           THEN existingInsights[1].createdAt ELSE NoDate},
       precondition \in {PreconditionError(accounts, allTransactions)} :
        /\ UNCHANGED <<now, accounts, transactions, probe>>
        /\ IF ~authed
           THEN /\ response' = ErrorResponse("generate", 401, "Unauthorized")
                /\ outcome' = Rejected("generate", FALSE, now, 0)
                /\ UNCHANGED <<insightStore, lastFresh>>
           ELSE IF precondition # ""
           THEN /\ response' = ErrorResponse("generate", 400, precondition)
                /\ outcome' = WithBody(forceRefresh, Rejected("generate", TRUE, now,
                                                              Len(existingInsights)))
                /\ UNCHANGED <<insightStore, lastFresh>>
           ELSE \E scripts \in Scenarios :
                \E r \in {generateInsightsWithCaching(allTransactions, existingInsights,
                                                       lastGenerated, scripts, now)} :
                    IF ~r.ok
                    THEN /\ response' = handleApiError(r.error)
                         /\ outcome' = WithBody(forceRefresh,
                                 Outcome("generate", TRUE, now, Len(existingInsights),
                                         lastGenerated, scripts, "failed", "none",
                                         <<>>, r.calls))
                         /\ UNCHANGED <<insightStore, lastFresh>>
                    ELSE IF r.fromCache
                    THEN /\ response' = Response("generate", 200, "", TRUE,
                                                 existingInsights, lastGenerated, FALSE)
                         /\ outcome' = WithBody(forceRefresh,
                                 Outcome("generate", TRUE, now, Len(existingInsights),
                                         lastGenerated, NoScripts, "cached", "none",
                                         <<>>, r.calls))
                         /\ UNCHANGED <<insightStore, lastFresh>>
                    ELSE \E insights \in r.outcomes, dbOk \in BOOLEAN :
                         \E rows \in {Rows(insights, r.generatedAt)} :
                             /\ lastFresh' = now
                             /\ outcome' = WithBody(forceRefresh,
                                     Outcome("generate", TRUE, now,
                                             Len(existingInsights), lastGenerated,
                                             scripts, "ok",
                                             IF dbOk THEN "ok" ELSE "failed",
                                             insights, r.calls))
                             /\ insightStore' = insightStore \o dbTransaction(rows, dbOk)
                             /\ response' =
                                    IF dbOk
                                    THEN Response("generate", 200, "", FALSE,
                                                  CreatedRows(rows), r.generatedAt, FALSE)
                                    ELSE GenerateWriteFailed(rows, insights, r.generatedAt)

\* POST /api/insights/refresh
RefreshPOST(authed) ==
    \E allTransactions \in {Last90Days(transactions, now)} :
    \E precondition \in {PreconditionError(accounts, allTransactions)} :
        /\ UNCHANGED <<now, accounts, transactions, lastFresh, probe>>
        /\ IF ~authed
           THEN /\ response' = ErrorResponse("refresh", 401, "Unauthorized")
                /\ outcome' = Rejected("refresh", FALSE, now, 0)
                /\ UNCHANGED insightStore
           ELSE IF precondition # ""
           THEN /\ insightStore' = <<>>
                /\ response' = ErrorResponse("refresh", 400, precondition)
                /\ outcome' = Rejected("refresh", TRUE, now, Len(insightStore))
           ELSE \E scripts \in Scenarios :
                \E result \in {generateAllInsights(allTransactions, scripts)} :
                    IF ~result.ok
                    THEN /\ insightStore' = <<>>
                         /\ response' = RefreshCatch(result.error)
                         /\ outcome' = Outcome("refresh", TRUE, now, Len(insightStore),
                                               NoDate, scripts, "failed", "none", <<>>,
                                               result.calls)
                    ELSE \E allInsights \in result.outcomes, dbOk \in BOOLEAN :
                         \E rows \in {Rows(allInsights, now)} :
                             /\ outcome' = Outcome("refresh", TRUE, now, Len(insightStore),
                                                   NoDate, scripts, "ok",
                                                   IF dbOk THEN "ok" ELSE "failed",
                                                   allInsights, result.calls)
                             /\ insightStore' = dbTransaction(rows, dbOk)
                             /\ response' =
                                    IF dbOk
                                    THEN Response("refresh", 200, "", FALSE,
                                                  CreatedRows(rows), now, FALSE)
                                    ELSE RefreshWriteFailed(rows, allInsights, now)

----------------------------------------------------------------------------
(* The environment: the clock, account linking and transaction sync.       *)

\* An environment step leaves no response behind: response and outcome
\* describe the request handled in the last step, if that was a request.
Idle ==
    /\ response' = NoResponse
    /\ outcome' = NoOutcome

Tick ==
    /\ \E t \in Instants : t > now /\ now' = t
    /\ Idle
    /\ UNCHANGED <<accounts, transactions, insightStore, lastFresh, probe>>

\* n transactions created and dated now.
NewRows(n) == [i \in 1..n |-> [createdAt |-> now, date |-> now, amount |-> 25]]

\* Linking an account (exchange-token) creates the account and syncs the
\* transactions Plaid has for it, if any.
ConnectAccount(id, n) ==
    /\ id \notin accounts
    /\ Len(transactions) + n <= MaxTx
    /\ accounts' = accounts \cup {id}
    /\ transactions' = transactions \o NewRows(n)
    /\ Idle
    /\ UNCHANGED <<now, insightStore, lastFresh, probe>>

\* A later sync writes a batch of n transactions.
SyncTransactions(n) ==
    /\ accounts # {}
    /\ Len(transactions) + n <= MaxTx
    /\ transactions' = transactions \o NewRows(n)
    /\ Idle
    /\ UNCHANGED <<now, accounts, insightStore, lastFresh, probe>>

----------------------------------------------------------------------------

NoProbe == [op |-> "none"]

Init ==
    /\ now = 0
    /\ accounts = {}
    /\ transactions = <<>>
    /\ insightStore = <<>>
    /\ response = NoResponse
    /\ outcome = NoOutcome
    /\ lastFresh = NoDate
    /\ probe = NoProbe

Next ==
    \/ Tick
    \/ \E id \in AccountIds, n \in InitialSync : ConnectAccount(id, n)
    \/ \E n \in BatchSizes : SyncTransactions(n)
    \/ \E authed, forceRefresh \in BOOLEAN : GeneratePOST(authed, forceRefresh)
    \/ \E authed \in BOOLEAN : RefreshPOST(authed)

Spec == Init /\ [][Next]_vars

\* Generate requests only: the runs of a user who never calls refresh.
NextGenerate ==
    \/ Tick
    \/ \E id \in AccountIds, n \in InitialSync : ConnectAccount(id, n)
    \/ \E n \in BatchSizes : SyncTransactions(n)
    \/ \E authed, forceRefresh \in BOOLEAN : GeneratePOST(authed, forceRefresh)

SpecGenerate == Init /\ [][NextGenerate]_vars

----------------------------------------------------------------------------
(* Properties of the cache policy.                                         *)

\* The last step was a generate request that reached the cache policy with
\* stored insights.
CachingCalled ==
    /\ outcome.route = "generate"
    /\ outcome.generation # "none"
    /\ outcome.existing > 0
    /\ outcome.lastGenerated # NoDate

\* Hours between the newest stored insight and the request.
CacheAge == outcome.at - outcome.lastGenerated

\* The number of transactions created strictly after instant t.
CreatedAfter(t) ==
    Cardinality({i \in 1..Len(transactions) : transactions[i].createdAt > t})

\* The response is the cache: the stored insights as they are, dated at the
\* last generation, with no model call made.
AnsweredFromCache ==
    /\ response.status = 200
    /\ response.fromCache
    /\ response.insights = OrderByCreatedAtDesc(insightStore)
    /\ response.generatedAt = outcome.lastGenerated
    /\ outcome.generation = "cached"
    /\ outcome.calls = 0

\* C1: whenever insights exist and the last generation is less than 24 hours
\* before now, the answer is the cache: fromCache is true, the insights are
\* the existing ones unmodified, generatedAt is lastGenerated, and no model
\* call is made.
C1_RecentGenerationIsCached ==
    (CachingCalled /\ CacheAge < 24) => AnsweredFromCache

C1_Witness ==
    /\ CachingCalled
    /\ CacheAge = 23
    /\ CreatedAfter(outcome.lastGenerated) = 0
    /\ AnsweredFromCache

C3_StaleNeverCached ==
    (CachingCalled /\ CacheAge > 24) => ~response.fromCache

\* C3: when the last generation is more than 24 hours before now, the cache is
\* left exactly when 10 or more transactions were created after it; with
\* fewer, 0 included, the answer is the cache.
C3_StaleCachedUnlessTenNew ==
    (CachingCalled /\ CacheAge > 24)
        => IF CreatedAfter(outcome.lastGenerated) >= 10
           THEN ~response.fromCache /\ outcome.generation \in {"ok", "failed"}
           ELSE AnsweredFromCache

C3_Witness ==
    /\ CachingCalled
    /\ CacheAge = 25
    /\ CreatedAfter(outcome.lastGenerated) = 0
    /\ AnsweredFromCache

\* C4 as stated: a last generation 1 hour old with 15 transactions created
\* after it is not answered from the cache.
C4_OneHourFifteenNewRegenerates ==
    (CachingCalled /\ CacheAge = 1 /\ CreatedAfter(outcome.lastGenerated) = 15)
        => ~response.fromCache

\* C4: a last generation 1 hour old with 15 transactions created after it is
\* answered from the cache, without a model call: the age of the cache is
\* tested first and decides.
C4_OneHourFifteenNewIsCached ==
    (CachingCalled /\ CacheAge = 1 /\ CreatedAfter(outcome.lastGenerated) = 15)
        => AnsweredFromCache

C4_Witness ==
    /\ CachingCalled
    /\ CacheAge = 1
    /\ CreatedAfter(outcome.lastGenerated) = 15
    /\ response.fromCache
    /\ outcome.calls = 0

\* The newest createdAt of the stored insights.
NewestStored == OrderByCreatedAtDesc(insightStore)[1].createdAt

\* The step is a generate request that regenerated and answered with fresh
\* insights.
Regenerates == outcome'.route = "generate" /\ outcome'.generation = "ok"

----------------------------------------------------------------------------
(* The validator studied alone: generateSpendingAnalysis run on a response *)
(* whose "insights" list is drawn from the elements above.                 *)

InitValidator ==
    /\ now = 0
    /\ accounts = {}
    /\ transactions = <<>>
    /\ insightStore = <<>>
    /\ response = NoResponse
    /\ outcome = NoOutcome
    /\ lastFresh = NoDate
    /\ \E items \in RawLists(MaxRaw), fenced \in BOOLEAN :
           probe = [op |-> "response", items |-> items,
                    text |-> IF fenced THEN Text(FenceJson, Obj("insights", items), Fence)
                             ELSE Text("", Obj("insights", items), "")]

RunSpendingAnalysis ==
    /\ probe.op = "response"
    /\ probe' = [op |-> "validated", items |-> probe.items, text |-> probe.text,
                 result |-> generateSpendingAnalysis(NewRows(1), Script(<<>>, probe.text))]
    /\ UNCHANGED <<now, accounts, transactions, insightStore, response, outcome, lastFresh>>

NextValidator == RunSpendingAnalysis

SpecValidator == InitValidator /\ [][NextValidator]_vars

----------------------------------------------------------------------------
(* Properties of generation and of the route handlers.                     *)

\* The three flows run on the scripts of a generation.
SpendingOf(scripts) == generateSpendingAnalysis(transactions, scripts.spending)
BudgetOf(scripts) == generateBudgetRecommendations(transactions, scripts.budget)
SavingsOf(scripts) == generateSavingsOpportunities(transactions, scripts.savings)

\* The number of times x occurs in list.
Occurrences(x, list) == Cardinality({i \in 1..Len(list) : list[i] = x})

\* list is a rearrangement of other: the same elements, as many times each.
Rearranges(list, other) ==
    /\ Len(list) = Len(other)
    /\ \A x \in {list[i] : i \in 1..Len(list)} :
           Occurrences(x, list) = Occurrences(x, other)

\* The insights a response carries.
ReturnedInsights == [i \in 1..Len(response.insights) |-> response.insights[i].parsedContent]

\* C6: a generation yields the results of all three flows or fails as a
\* whole: when the three flows resolve, the generated list is made of all
\* their results; when a flow fails after its retries or fails to parse,
\* generation returns no insight, the request answers with an error and no
\* insight of that generation is persisted.
C6_AllFlowsOrNothing ==
    [][(outcome'.generation \in {"ok", "failed"})
          => \A spending \in {SpendingOf(outcome'.scripts)},
                budget \in {BudgetOf(outcome'.scripts)},
                savings \in {SavingsOf(outcome'.scripts)} :
                 IF spending.ok /\ budget.ok /\ savings.ok
                 THEN /\ outcome'.generation = "ok"
                      /\ \A computed \in {outcome'.computed},
                            results \in {AllInsights(spending.value, budget.value,
                                                     savings.value)} :
                             Rearranges(computed, results)
                 ELSE /\ outcome'.generation = "failed"
                      /\ outcome'.computed = <<>>
                      /\ response'.status = 500
                      /\ response'.insights = <<>>
                      /\ \A i \in 1..Len(insightStore') :
                             \E j \in 1..Len(insightStore) :
                                 insightStore'[i] = insightStore[j]]_vars

C6_Witness ==
    /\ outcome.route = "generate"
    /\ outcome.generation = "failed"
    /\ SpendingOf(outcome.scripts).ok
    /\ BudgetOf(outcome.scripts).ok
    /\ ~SavingsOf(outcome.scripts).ok
    /\ SavingsOf(outcome.scripts).calls = 3
    /\ response.status = 500
    /\ insightStore # <<>>

\* C7: every insight in the store has a category among the six enumerated
\* values and a priority among high, medium and low.
C7_StoredInsightsAreEnumerated ==
    \A i \in 1..Len(insightStore) :
        /\ insightStore[i].type
               \in {"spending", "budget", "savings", "income", "general", "cost reduction"}
        /\ JSONparse(insightStore[i].content).category
               \in {JStr(c) : c \in {"spending", "budget", "savings", "income", "general",
                                     "cost reduction"}}
        /\ JSONparse(insightStore[i].content).priority
               \in {JStr("high"), JStr("medium"), JStr("low")}

\* The fields of an element other than confidence, which the flow defaults.
Supplied(e) == <<e.kind, e.title, e.description, e.category, e.priority, e.potentialSavings>>

SuppliedOf(list) == [i \in 1..Len(list) |-> Supplied(list[i])]

\* An element with an enumerated category and an enumerated priority.
Enumerated(e) ==
    /\ e.kind = "object"
    /\ e.category \in {JStr(c) : c \in {"spending", "budget", "savings", "income", "general",
                                        "cost reduction"}}
    /\ e.priority \in {JStr("high"), JStr("medium"), JStr("low")}

IsString(v) == v.t = "string"

NonEmptyString(v) == v.t = "string" /\ v.s # ""

\* C8 as stated: the flow resolves with exactly the elements whose title and
\* description are non-empty strings and whose category and priority are
\* enumerated values, in their original order.
C8_KeepsNonEmptyEnumerated ==
    probe.op = "validated"
        => /\ probe.result.ok
           /\ SuppliedOf(probe.result.value)
                  = SuppliedOf(SelectSeq(probe.items,
                        LAMBDA e : Enumerated(e) /\ NonEmptyString(e.title)
                                   /\ NonEmptyString(e.description)))

\* C8: the flow resolves with exactly the elements whose title and
\* description are strings, empty or not, and whose category and priority are
\* enumerated values, in their original order; every other element is
\* dropped without an error, and a list of such elements loses none.
C8_KeepsStringEnumerated ==
    probe.op = "validated"
        => /\ probe.result.ok
           /\ SuppliedOf(probe.result.value)
                  = SuppliedOf(SelectSeq(probe.items,
                        LAMBDA e : Enumerated(e) /\ IsString(e.title)
                                   /\ IsString(e.description)))
           /\ (\A i \in 1..Len(probe.items) :
                   Enumerated(probe.items[i]) /\ IsString(probe.items[i].title)
                       /\ IsString(probe.items[i].description))
                  => Len(probe.result.value) = Len(probe.items)

C8_Witness ==
    /\ probe.op = "validated"
    /\ probe.items = <<EmptyTitle, FooCategory, DiningUp>>
    /\ probe.result.ok
    /\ SuppliedOf(probe.result.value) = <<Supplied(EmptyTitle), Supplied(DiningUp)>>

C10_WriteFailureStillReturnsInsights ==
    (outcome.generation = "ok" /\ outcome.write = "failed")
        => /\ response.status = 200
           /\ response.warning
           /\ ReturnedInsights = outcome.computed

\* C11: the insights of one generation are written atomically: after a
\* request that generated a batch, whether its write succeeded or failed, the
\* store has gained every row of the batch or none of them.
C11_BatchWrittenWhollyOrNotAtAll ==
    [][(outcome'.generation = "ok")
          => \A batch \in {Rows(outcome'.computed, now)},
                before \in {IF outcome'.route = "generate" THEN insightStore ELSE <<>>} :
                 \/ insightStore' = before \o batch
                 \/ insightStore' = before]_vars

C11_Witness ==
    /\ outcome.generation = "ok"
    /\ outcome.write = "failed"
    /\ Len(outcome.computed) > 1
    /\ insightStore = <<>>

\* The messages of the errors with which the model client gave up, over the
\* flows of a generation that failed there.
ClientFailures(scripts) ==
    {retryGroqCall(scripts[flow]).error :
        flow \in {f \in {"spending", "budget", "savings"} : ~retryGroqCall(scripts[f]).ok}}

\* C12: when a generation fails because the model client reported a rate
\* limit, a quota exhaustion or another failure, the response carries the
\* message of that case: service busy, quota exceeded, or a generic failure.
C12_FailureMessageTellsTheCause ==
    (outcome.generation = "failed")
        => \A causes \in {ClientFailures(outcome.scripts)} :
               /\ causes = {BusyMessage} => response.error = BusyMessage
               /\ causes = {QuotaMessage} => response.error = QuotaMessage
               /\ causes \cap {BusyMessage, QuotaMessage} = {}
                      => response.error \notin {BusyMessage, QuotaMessage}

----------------------------------------------------------------------------
(* The model client studied alone: one call of makeGroqCall, and one run   *)
(* of retryGroqCall, against a script.                                     *)

InitClient ==
    /\ now = 0
    /\ accounts = {}
    /\ transactions = <<>>
    /\ insightStore = <<>>
    /\ response = NoResponse
    /\ outcome = NoOutcome
    /\ lastFresh = NoDate
    /\ \E script \in ClientScripts : probe = [op |-> "script", script |-> script]

RunMakeGroqCall(attempt) ==
    /\ probe.op = "script"
    /\ probe' = [op |-> "called", script |-> probe.script, attempt |-> attempt,
                 result |-> makeGroqCall(attempt, probe.script)]
    /\ UNCHANGED <<now, accounts, transactions, insightStore, response, outcome, lastFresh>>

RunRetryGroqCall ==
    /\ probe.op = "script"
    /\ probe' = [op |-> "retried", script |-> probe.script,
                 result |-> retryGroqCall(probe.script)]
    /\ UNCHANGED <<now, accounts, transactions, insightStore, response, outcome, lastFresh>>

NextClient ==
    \/ \E attempt \in 0..MaxFailures : RunMakeGroqCall(attempt)
    \/ RunRetryGroqCall

SpecClient == InitClient /\ [][NextClient]_vars

\* The number of calls the script makes fail before one answers.
FailuresOf(script) == Len(script.errors)

\* C13: an operation that fails k times and then succeeds, with k at most
\* maxRetries (3), makes retryGroqCall return the success value after exactly
\* k + 1 invocations.
C13_SucceedsAfterKFailures ==
    (probe.op = "retried" /\ FailuresOf(probe.script) <= 3)
        => /\ probe.result.ok
           /\ probe.result.value = probe.script.text
           /\ probe.result.calls = FailuresOf(probe.script) + 1

C13_Witness ==
    /\ probe.op = "retried"
    /\ FailuresOf(probe.script) = 2
    /\ probe.result.ok
    /\ probe.result.calls = 3

\* C14: an operation that fails at every invocation makes retryGroqCall
\* invoke it exactly maxRetries + 1 (4) times and then throw the error of the
\* last invocation, unchanged.
C14_GivesUpWithLastError ==
    (probe.op = "retried" /\ FailuresOf(probe.script) > 3)
        => /\ ~probe.result.ok
           /\ probe.result.calls = 4
           /\ probe.result.error = makeGroqCall(3, probe.script).error

C14_Witness ==
    /\ probe.op = "retried"
    /\ probe.script.errors = <<RateLimitError, NetworkError, NetworkError, QuotaError>>
    /\ ~probe.result.ok
    /\ probe.result.calls = 4
    /\ probe.result.error = QuotaMessage

\* The smaller of two numbers.
Min(a, b) == IF a < b THEN a ELSE b

\* C15: after the failed attempt number k (from 0) that is not the last one
\* allowed, retryGroqCall waits 1000 * 2^k milliseconds, whatever the error,
\* and it waits nothing after the last failed attempt.
C15_BackoffDoublesFromBaseDelay ==
    (probe.op = "retried")
        => /\ Len(probe.result.delays) = Min(FailuresOf(probe.script), 3)
           /\ \A k \in 0..(Len(probe.result.delays) - 1) :
                  probe.result.delays[k + 1]
                      = CASE k = 0 -> 1000 [] k = 1 -> 2000 [] k = 2 -> 4000

C15_Witness ==
    /\ probe.op = "retried"
    /\ probe.script.errors = <<QuotaError, RateLimitError, NetworkError, NetworkError>>
    /\ probe.result.delays = <<1000, 2000, 4000>>

\* C16: makeGroqCall classifies a provider error by the substrings of its
\* message, the first of rate_limit, invalid_api_key, quota, decommissioned
\* that occurs deciding, and any other failure is the generic one.
C16_FirstSubstringDecides ==
    (probe.op = "called" /\ probe.attempt < FailuresOf(probe.script))
        => \A thrown \in {probe.script.errors[probe.attempt + 1]} :
               /\ ~probe.result.ok
               /\ probe.result.error =
                      CASE thrown.isError /\ "rate_limit" \in thrown.marks ->
                               "AI service is temporarily busy. Please try again in a moment."
                        [] thrown.isError /\ "rate_limit" \notin thrown.marks
                               /\ "invalid_api_key" \in thrown.marks ->
                               "AI service configuration error. Please contact support."
                        [] thrown.isError
                               /\ thrown.marks \cap {"rate_limit", "invalid_api_key"} = {}
                               /\ "quota" \in thrown.marks ->
                               "AI service quota exceeded. Please try again later."
                        [] thrown.isError /\ thrown.marks = {"decommissioned"} -> ModelMessage
                        [] OTHER -> "Failed to generate AI insights. Please try again."

C16_Witness ==
    /\ probe.op = "called"
    /\ probe.attempt = 0
    /\ probe.script.errors = <<ProviderError(TRUE, {"quota", "invalid_api_key"})>>
    /\ probe.result.error = ConfigMessage

----------------------------------------------------------------------------
(* The three flows studied alone: each is run once on a completion that    *)
(* arrives after some failed calls.                                        *)

InitFlow ==
    /\ now = 0
    /\ accounts = {}
    /\ transactions = <<>>
    /\ insightStore = <<>>
    /\ response = NoResponse
    /\ outcome = NoOutcome
    /\ lastFresh = NoDate
    /\ \E text \in FlowTexts, failures \in 0..MaxFailures :
           probe = [op |-> "completion", script |-> Script(Failing(failures, NetworkError), text)]

FlowSpendingAnalysis ==
    /\ probe.op = "completion"
    /\ probe' = [op |-> "flow", key |-> "insights", script |-> probe.script,
                 result |-> generateSpendingAnalysis(NewRows(1), probe.script)]
    /\ UNCHANGED <<now, accounts, transactions, insightStore, response, outcome, lastFresh>>

FlowBudgetRecommendations ==
    /\ probe.op = "completion"
    /\ probe' = [op |-> "flow", key |-> "recommendations", script |-> probe.script,
                 result |-> generateBudgetRecommendations(NewRows(1), probe.script)]
    /\ UNCHANGED <<now, accounts, transactions, insightStore, response, outcome, lastFresh>>

FlowSavingsOpportunities ==
    /\ probe.op = "completion"
    /\ probe' = [op |-> "flow", key |-> "opportunities", script |-> probe.script,
                 result |-> generateSavingsOpportunities(NewRows(1), probe.script)]
    /\ UNCHANGED <<now, accounts, transactions, insightStore, response, outcome, lastFresh>>

NextFlow ==
    \/ FlowSpendingAnalysis
    \/ FlowBudgetRecommendations
    \/ FlowSavingsOpportunities

SpecFlow == InitFlow /\ [][NextFlow]_vars

\* The text is valid JSON once a fence pair, if any, is stripped.
ValidJsonAfterStripping(text) ==
    /\ \/ text.prefix = "" /\ text.suffix = ""
       \/ text.prefix \in {FenceJson, Fence} /\ text.suffix = Fence
    /\ text.body.json

\* The parsed text has the key and the key holds a list.
HasListUnder(text, key) == text.body.key = key /\ text.body.isArray

\* C17: a flow whose completion is not valid JSON after fence stripping, or
\* lacks its top-level key, or holds something that is no list under it,
\* fails with an error, returns no list, and calls the model no more.
C17_UnusableCompletionFailsTheFlow ==
    (/\ probe.op = "flow"
     /\ FailuresOf(probe.script) <= 3
     /\ \/ ~ValidJsonAfterStripping(probe.script.text)
        \/ ~HasListUnder(probe.script.text, probe.key))
        => /\ ~probe.result.ok
           /\ probe.result.error # ""
           /\ probe.result.value = <<>>
           /\ probe.result.calls = FailuresOf(probe.script) + 1

C17_Witness ==
    /\ probe.op = "flow"
    /\ probe.key = "recommendations"
    /\ probe.script = Script(<<NetworkError>>, Text("", Obj("insights", <<DiningUp, Note>>), ""))
    /\ ~probe.result.ok
    /\ probe.result.calls = 2

----------------------------------------------------------------------------
(* The assembler studied alone: the three lists are merged and sorted, and *)
(* the sorted list is sorted once more.                                    *)

InitAssembler ==
    /\ now = 0
    /\ accounts = {}
    /\ transactions = <<>>
    /\ insightStore = <<>>
    /\ response = NoResponse
    /\ outcome = NoOutcome
    /\ lastFresh = NoDate
    /\ \E input \in AssemblerInputs :
           probe = [op |-> "lists", spending |-> input[1], budget |-> input[2],
                    savings |-> input[3]]

AssembleAllInsights ==
    /\ probe.op = "lists"
    /\ \E merged \in {AllInsights(probe.spending, probe.budget, probe.savings)} :
         \E sorted \in SortOutcomes(merged) :
           probe' = [op |-> "assembled", spending |-> probe.spending,
                     budget |-> probe.budget, savings |-> probe.savings,
                     merged |-> merged, before |-> merged, allInsights |-> sorted]
    /\ UNCHANGED <<now, accounts, transactions, insightStore, response, outcome, lastFresh>>

SortAgain ==
    /\ probe.op = "assembled"
    /\ \E sorted \in SortOutcomes(probe.allInsights) :
           probe' = [probe EXCEPT !.op = "resorted", !.before = probe.allInsights,
                                  !.allInsights = sorted]
    /\ UNCHANGED <<now, accounts, transactions, insightStore, response, outcome, lastFresh>>

NextAssembler ==
    \/ AssembleAllInsights
    \/ SortAgain

SpecAssembler == InitAssembler /\ [][NextAssembler]_vars

\* The sort key of an insight: the rank of its priority (0 when it is none
\* of the three) and its potential savings, a missing one counting as 0.
RankOf(insight) ==
    IF insight.priority = JStr("high") THEN 3
    ELSE IF insight.priority = JStr("medium") THEN 2
    ELSE IF insight.priority = JStr("low") THEN 1
    ELSE 0

AmountOf(insight) ==
    IF IsNumber(insight.potentialSavings) THEN insight.potentialSavings.n ELSE 0

SameKey(x, y) == RankOf(x) = RankOf(y) /\ AmountOf(x) = AmountOf(y)

\* The insights of a list that have the sort key of x, in the list's order.
WithKeyOf(x, list) == SelectSeq(list, LAMBDA y : SameKey(x, y))

\* C18: allInsights is the stable sort of the concatenation of the three
\* lists by priority (high, medium, low) and then by potential savings, both
\* descending; insights equal on both keep their generation order, and
\* sorting the list again leaves it as it is.
C18_SortedByPriorityThenSavings ==
    (probe.op \in {"assembled", "resorted"})
        => /\ \A i, j \in 1..Len(probe.allInsights) :
                  (i < j /\ RankOf(probe.allInsights[i]) # 0 /\ RankOf(probe.allInsights[j]) # 0)
                      => \/ RankOf(probe.allInsights[i]) > RankOf(probe.allInsights[j])
                         \/ /\ RankOf(probe.allInsights[i]) = RankOf(probe.allInsights[j])
                            /\ AmountOf(probe.allInsights[i]) >= AmountOf(probe.allInsights[j])
           /\ \A i \in 1..Len(probe.merged) :
                  WithKeyOf(probe.merged[i], probe.allInsights)
                      = WithKeyOf(probe.merged[i], probe.merged)
           /\ probe.op = "resorted" => probe.allInsights = probe.before

\* The insight the assembler made of the savings opportunity number i.
InsightOfOpportunity(i) == probe.merged[Len(probe.spending) + Len(probe.budget) + i]

\* C19: every savings opportunity becomes an insight of category savings and
\* confidence 0.85 whose potentialSavings is its potentialMonthlySavings and
\* whose priority is high above 50, medium above 20 up to 50, low up to 20.
C19_SavingsOpportunityBecomesInsight ==
    (probe.op = "assembled")
        => /\ Len(probe.merged) = Len(probe.spending) + Len(probe.budget) + Len(probe.savings)
           /\ \A i \in 1..Len(probe.savings) :
                \A opp \in {probe.savings[i]}, insight \in {InsightOfOpportunity(i)} :
                  /\ insight.category = JStr("savings")
                  /\ insight.confidence = JNum(85)
                  /\ insight.potentialSavings = opp.potentialMonthlySavings
                  /\ insight.title = opp.title
                  /\ Occurrences(insight, probe.allInsights) = Occurrences(insight, probe.merged)
                  /\ IsNumber(opp.potentialMonthlySavings)
                        => insight.priority
                               = IF opp.potentialMonthlySavings.n > 50 THEN JStr("high")
                                 ELSE IF opp.potentialMonthlySavings.n > 20 THEN JStr("medium")
                                 ELSE JStr("low")

C19_Witness ==
    /\ probe.op = "assembled"
    /\ probe.savings = <<Opportunity(JNum(50)), Opportunity(JNum(51))>>
    /\ probe.budget = <<DiningBudget>>
    /\ InsightOfOpportunity(1).priority = JStr("medium")
    /\ InsightOfOpportunity(2).priority = JStr("high")

\* C20: every insight the assembler produces has a potentialSavings that is
\* absent or at least 0, the budget insights (currentAverage minus
\* suggestedAmount) included.
C20_PotentialSavingsNeverNegative ==
    (probe.op = "assembled")
        => \A i \in 1..Len(probe.allInsights) :
               \/ probe.allInsights[i].potentialSavings = JUndef
               \/ /\ IsNumber(probe.allInsights[i].potentialSavings)
                  /\ probe.allInsights[i].potentialSavings.n >= 0

----------------------------------------------------------------------------
(* The prompt formatter studied alone.                                     *)

InitFormatter ==
    /\ now \in {0, MaxTime}
    /\ accounts = {}
    /\ transactions = <<>>
    /\ insightStore = <<>>
    /\ response = NoResponse
    /\ outcome = NoOutcome
    /\ lastFresh = NoDate
    /\ \E shapes \in FormatterInputs :
           probe = [op |-> "transactions", input |-> RowsAt(shapes, now)]

RunFormatTransactionsForAI ==
    /\ probe.op = "transactions"
    /\ probe' = [op |-> "formatted", input |-> probe.input,
                 result |-> formatTransactionsForAI(probe.input, now)]
    /\ UNCHANGED <<now, accounts, transactions, insightStore, response, outcome, lastFresh>>

NextFormatter == RunFormatTransactionsForAI

SpecFormatter == InitFormatter /\ [][NextFormatter]_vars

\* The rows of the input the entry number i of the output was made of
\* (names number the rows of the input).
SourceOf(i) == probe.input[probe.result[i].name]

\* The rows of the input that are expenses of the trailing 30 days.
Qualifying == {k \in 1..Len(probe.input) :
                  probe.input[k].amount > 0 /\ probe.input[k].date >= now - 720}

\* C21: the output of formatTransactionsForAI holds no transaction with
\* amount <= 0 and none dated more than 30 days before the call, and an
\* empty input gives an empty output.
C21_OnlyRecentExpenses ==
    (probe.op = "formatted")
        => /\ \A i \in 1..Len(probe.result) :
                  /\ probe.result[i].name \in 1..Len(probe.input)
                  /\ probe.result[i].amount = SourceOf(i).amount
                  /\ probe.result[i].amount > 0
                  /\ SourceOf(i).date >= now - 720
           /\ probe.input = <<>> => probe.result = <<>>

C21_Witness ==
    /\ probe.op = "formatted"
    /\ Len(probe.input) = 2
    /\ probe.input[1].amount = 25 /\ probe.input[1].date = now - 721
    /\ probe.input[2].amount = 0 - 5
    /\ probe.result = <<>>

\* C22: with more than 50 expenses in the trailing 30 days the output has
\* exactly 50 entries, the 50 most recent by date, in descending date order;
\* with 50 or fewer, all of them are in the output.
C22_FiftyMostRecentFirst ==
    (probe.op = "formatted")
        => /\ Len(probe.result) = IF Cardinality(Qualifying) > 50 THEN 50
                                  ELSE Cardinality(Qualifying)
           /\ \A i \in 1..Len(probe.result) : probe.result[i].name \in Qualifying
           /\ \A i, j \in 1..Len(probe.result) :
                  i < j => /\ probe.result[i].name # probe.result[j].name
                           /\ SourceOf(i).date >= SourceOf(j).date
                           /\ probe.result[i].date >= probe.result[j].date
           /\ \A k \in Qualifying :
                  \/ \E i \in 1..Len(probe.result) : probe.result[i].name = k
                  \/ \A i \in 1..Len(probe.result) : SourceOf(i).date >= probe.input[k].date

C22_Witness ==
    /\ probe.op = "formatted"
    /\ Cardinality(Qualifying) = 53
    /\ Len(probe.result) = 50
    /\ probe.result[1].name = 53
    /\ probe.input[2].date < probe.input[3].date

----------------------------------------------------------------------------
(* parseAIResponse studied alone, on a text and on the text in a fence.    *)

InitParser ==
    /\ now = 0
    /\ accounts = {}
    /\ transactions = <<>>
    /\ insightStore = <<>>
    /\ response = NoResponse
    /\ outcome = NoOutcome
    /\ lastFresh = NoDate
    /\ \E text \in JsonTexts \cup NotJsonTexts, tagged \in BOOLEAN, outside \in {<<>>, <<"\n">>} :
           probe = [op |-> "text", json |-> text \in JsonTexts, text |-> text,
                    fenced |-> Fenced(text, tagged, outside)]

ParseUnfenced ==
    /\ probe.op = "text"
    /\ probe' = [probe EXCEPT !.op = "unfenced"] @@ [bare |-> parseAIResponseChars(probe.text)]
    /\ UNCHANGED <<now, accounts, transactions, insightStore, response, outcome, lastFresh>>

ParseFenced ==
    /\ probe.op = "unfenced"
    /\ probe' = [probe EXCEPT !.op = "both"] @@ [wrapped |-> parseAIResponseChars(probe.fenced)]
    /\ UNCHANGED <<now, accounts, transactions, insightStore, response, outcome, lastFresh>>

NextParser ==
    \/ ParseUnfenced
    \/ ParseFenced

SpecParser == InitParser /\ [][NextParser]_vars

\* C23: for every JSON text, parseAIResponse of the text between one opening
\* fence, with or without the json tag, and one closing fence yields the
\* object parseAIResponse yields for the text alone.
C23_FenceMakesNoDifference ==
    (probe.op = "both" /\ probe.json)
        => /\ probe.bare.kind # "error"
           /\ probe.wrapped = probe.bare

C23_Witness ==
    /\ probe.op = "both"
    /\ probe.text = <<"\n", "[", " ", "\"", "'", "'", "'", "\"", "]">>
    /\ probe.fenced = <<"'", "'", "'">> \o probe.text \o <<"'", "'", "'">>
    /\ probe.wrapped = JValue("array", <<>>, <<JValue("string", <<"'", "'", "'">>, <<>>)>>)

----------------------------------------------------------------------------
(* The middleware studied alone.  probe holds the limiter's store, the     *)
(* clock, the instants at which each caller and each key was let through   *)
(* on each path, and the last answer.                                      *)

NoAnswer == [caller |-> "", pathname |-> "", status |-> 0,
             result |-> RateLimitResult(TRUE, 0, 0, 0)]

InitRateLimit ==
    /\ now = 0
    /\ accounts = {}
    /\ transactions = <<>>
    /\ insightStore = <<>>
    /\ response = NoResponse
    /\ outcome = NoOutcome
    /\ lastFresh = NoDate
    /\ probe = [op |-> "middleware", clock |-> 0, rateLimitStore |-> <<>>, requests |-> 0,
                allowedOf |-> [c \in Callers \X Pathnames |-> <<>>],
                allowedBy |-> [k \in {"authenticated", "anonymous"} \X Pathnames |-> <<>>],
                last |-> NoAnswer]

\* Twenty minutes pass.
ClockAdvance ==
    /\ probe.op = "middleware"
    /\ probe.clock < MaxClock * StepMs
    /\ probe' = [probe EXCEPT !.clock = @ + StepMs]
    /\ UNCHANGED <<now, accounts, transactions, insightStore, response, outcome, lastFresh>>

\* beforeAuth for a request of `caller` to `pathname`; `cleanup` is whether
\* Math.random() fell under 0.01.
BeforeAuth(caller, pathname, cleanup) ==
    /\ probe.op = "middleware"
    /\ probe.requests < MaxRequests
    /\ \E userId \in {MiddlewareUserId(HasAuthorization(caller))} :
       \E checked \in {checkRateLimit(IF cleanup
                                      THEN cleanupExpiredEntries(probe.rateLimitStore, probe.clock)
                                      ELSE probe.rateLimitStore,
                                      userId, pathname, probe.clock)} :
           probe' = [probe EXCEPT
                        !.rateLimitStore = checked.store,
                        !.requests = @ + 1,
                        !.allowedOf[<<caller, pathname>>] =
                            IF checked.result.isAllowed THEN Append(@, probe.clock) ELSE @,
                        !.allowedBy[<<userId, pathname>>] =
                            IF checked.result.isAllowed THEN Append(@, probe.clock) ELSE @,
                        !.last = [caller |-> caller, pathname |-> pathname,
                                  status |-> IF checked.result.isAllowed THEN 200 ELSE 429,
                                  result |-> checked.result]]
    /\ UNCHANGED <<now, accounts, transactions, insightStore, response, outcome, lastFresh>>

NextRateLimit ==
    \/ ClockAdvance
    \/ \E caller \in Callers, pathname \in Pathnames, cleanup \in BOOLEAN :
           BeforeAuth(caller, pathname, cleanup)

SpecRateLimit == InitRateLimit /\ [][NextRateLimit]_vars

\* The requests of a list of instants that fall in the hour that starts at
\* the instant `from`.
InHourFrom(instants, from) ==
    Cardinality({i \in 1..Len(instants) : instants[i] >= from /\ instants[i] < from + 3600000})

\* C24: for one rate-limit key, the requests to /api/insights/generate that
\* checkRateLimit lets through inside any 60-minute interval number at most
\* 5, and a denied request consumes no allowance.
C24_AtMostFivePerHour ==
    (probe.op = "middleware")
        => \A userId \in {"authenticated", "anonymous"} :
             \A instants \in {probe.allowedBy[<<userId, "/api/insights/generate">>]} :
               \A i \in 1..Len(instants) : InHourFrom(instants, instants[i]) <= 5

\* The requests of the caller of the last request that were let through on
\* its path in the window the limiter is counting in.
OwnInWindow ==
    Cardinality({i \in 1..Len(probe.allowedOf[<<probe.last.caller, probe.last.pathname>>]) :
                    probe.allowedOf[<<probe.last.caller, probe.last.pathname>>][i]
                        >= probe.last.result.resetTime - 3600000})

\* C25: rate limiting is per user and endpoint: the allowance an
\* authenticated user has left on an endpoint is reduced by that user's own
\* requests only, and a user is answered 429 only for requests of their own.
C25_UsersDoNotShareAllowance ==
    (probe.op = "middleware" /\ probe.last.caller \in {"alice", "bob"})
        => /\ probe.last.status = 429
                => OwnInWindow >= RATE_LIMITS(probe.last.pathname).requests
           /\ probe.last.status = 200
                => probe.last.result.remaining
                       = RATE_LIMITS(probe.last.pathname).requests - OwnInWindow

----------------------------------------------------------------------------
(* The delete handler studied alone, with the requests of two users, and   *)
(* the deleteMany of a refresh, interleaved at its awaits.  probe holds    *)
(* the rows, the requests that have looked their row up and not deleted    *)
(* it yet, and the last answer.                                            *)

NoPending == 0 - 1

InitDelete ==
    /\ now = 0
    /\ accounts = {}
    /\ transactions = <<>>
    /\ insightStore = <<>>
    /\ response = NoResponse
    /\ outcome = NoOutcome
    /\ lastFresh = NoDate
    /\ probe = [op |-> "insights", rows |-> {}, nextId |-> 1,
                pending |-> [u \in Users |-> NoPending],
                last |-> DeleteAnswer("", 0, 0)]

\* An insight is stored for a user (a row of a generation batch).
CreateInsight(userId) ==
    /\ probe.op = "insights"
    /\ probe.nextId <= MaxIds
    /\ probe' = [probe EXCEPT !.rows = @ \cup {OwnedRow(probe.nextId, userId)},
                              !.nextId = @ + 1,
                              !.last = DeleteAnswer("", 0, 0)]
    /\ UNCHANGED <<now, accounts, transactions, insightStore, response, outcome, lastFresh>>

\* Lines 17-19 of the refresh route, run for a user.
RefreshDeleteMany(userId) ==
    /\ probe.op = "insights"
    /\ probe.rows # dbDeleteMany(probe.rows, userId)
    /\ probe' = [probe EXCEPT !.rows = dbDeleteMany(@, userId),
                              !.last = DeleteAnswer("", 0, 0)]
    /\ UNCHANGED <<now, accounts, transactions, insightStore, response, outcome, lastFresh>>

\* DELETE, lines 9-33: authentication, the id, and the look-up of the row.
DeleteLookup(caller, insightId) ==
    /\ probe.op = "insights"
    /\ caller \in Users => probe.pending[caller] = NoPending
    /\ probe' =
         IF caller = "" THEN [probe EXCEPT !.last = DeleteAnswer(caller, insightId, 401)]
         ELSE IF insightId = 0
         THEN [probe EXCEPT !.last = DeleteAnswer(caller, insightId, 400)]
         ELSE IF findFirst(probe.rows, insightId, caller) = {}
         THEN [probe EXCEPT !.last = DeleteAnswer(caller, insightId, 404)]
         ELSE [probe EXCEPT !.pending[caller] = insightId,
                            !.last = DeleteAnswer(caller, insightId, 0)]
    /\ UNCHANGED <<now, accounts, transactions, insightStore, response, outcome, lastFresh>>

\* DELETE, lines 35-51: the row is deleted, or the delete throws because
\* the row is gone and the catch block answers 500.
DeleteRemove(caller) ==
    /\ probe.op = "insights"
    /\ probe.pending[caller] # NoPending
    /\ probe' =
         IF \E row \in probe.rows : row.id = probe.pending[caller]
         THEN [probe EXCEPT !.rows = dbDelete(@, probe.pending[caller]),
                            !.pending[caller] = NoPending,
                            !.last = DeleteAnswer(caller, probe.pending[caller], 200)]
         ELSE [probe EXCEPT !.pending[caller] = NoPending,
                            !.last = DeleteAnswer(caller, probe.pending[caller], 500)]
    /\ UNCHANGED <<now, accounts, transactions, insightStore, response, outcome, lastFresh>>

NextDelete ==
    \/ \E userId \in Users : CreateInsight(userId)
    \/ \E userId \in Users : RefreshDeleteMany(userId)
    \/ \E caller \in Users \cup {""}, insightId \in 0..MaxIds : DeleteLookup(caller, insightId)
    \/ \E caller \in Users : DeleteRemove(caller)

SpecDelete == InitDelete /\ [][NextDelete]_vars

\* C26: a delete-by-id request removes the named insight only when it is the
\* caller's; for an id that is unknown or another user's the answer is 404
\* and the store is unchanged; no step of a delete request removes an
\* insight other than the named one.
C26_DeletesOnlyTheCallersNamedInsight ==
    [][(probe'.last.caller # "" /\ probe'.last.insightId # 0)
          => /\ \A row \in probe.rows \ probe'.rows :
                    /\ row.id = probe'.last.insightId
                    /\ row.userId = probe'.last.caller
             /\ ~(\E row \in probe.rows :
                      row.id = probe'.last.insightId /\ row.userId = probe'.last.caller)
                    => /\ probe'.rows = probe.rows
                       /\ probe'.last.status \in {404, 500}
                       /\ probe'.last.status = 500 => probe.pending[probe'.last.caller] # NoPending
             /\ probe'.last.status = 404 => probe'.rows = probe.rows]_vars

C26_Witness ==
    /\ probe.op = "insights"
    /\ probe.last = DeleteAnswer("bob", 1, 404)
    /\ probe.rows = {OwnedRow(1, "alice"), OwnedRow(2, "bob")}

----------------------------------------------------------------------------
(* Further properties of the route handlers.                               *)

\* C27: a refresh request that fails at any step (a precondition, a flow,
\* the store write) leaves the stored insights as they were; only a refresh
\* that succeeds replaces them.
C27_FailedRefreshKeepsStoredInsights ==
    [][(outcome'.route = "refresh" /\ response'.status # 200)
          => insightStore' = insightStore]_vars

\* C29: a generate request whose body sets forceRefresh to true is never
\* answered from the cache: it runs a fresh generation and returns
\* fromCache = false.
C29_ForceRefreshBypassesCache ==
    (outcome.route = "generate" /\ outcome.forceRefresh /\ response.status = 200)
        => /\ ~response.fromCache
           /\ outcome.generation = "ok"

----------------------------------------------------------------------------
(* Two generate requests of one user, interleaved at the awaits of the     *)
(* handler: the reads (lines 23-42), generation (68-73) and the store      *)
(* write (89-103).  probe holds what each request has read and computed,   *)
(* and for each batch written the state of the store its request had read. *)

Requests == {1, 2}

Waiting == [pc |-> "waiting", existingInsights |-> <<>>, allTransactions |-> <<>>,
            lastGenerated |-> NoDate, insights |-> <<>>, generatedAt |-> NoDate,
            status |-> 0, fromCache |-> FALSE]

InitConcurrent ==
    /\ now = 0
    /\ accounts = AccountIds
    /\ \E n \in {1, NewTxThreshold} : transactions = NewRows(n)
    /\ insightStore = <<>>
    /\ response = NoResponse
    /\ outcome = NoOutcome
    /\ lastFresh = NoDate
    /\ probe = [op |-> "requests", request |-> [r \in Requests |-> Waiting], batches |-> <<>>]

\* Lines 9-58: the request reads the accounts, the transactions and the
\* stored insights, and checks the preconditions.
GenerateRead(r) ==
    /\ probe.op = "requests"
    /\ probe.request[r].pc = "waiting"
    /\ \E existingInsights \in {OrderByCreatedAtDesc(insightStore)},
          allTransactions \in {Last90Days(transactions, now)} :
         probe' = [probe EXCEPT !.request[r] =
                      IF PreconditionError(accounts, allTransactions) # ""
                      THEN [@ EXCEPT !.pc = "done", !.status = 400]
                      ELSE [@ EXCEPT !.pc = "read",
                                     !.existingInsights = existingInsights,
                                     !.allTransactions = allTransactions,
                                     !.lastGenerated =
                                         IF Len(existingInsights) > 0
                                         THEN existingInsights[1].createdAt ELSE NoDate]]
    /\ UNCHANGED <<now, accounts, transactions, insightStore, response, outcome, lastFresh>>

\* Lines 60-84: generateInsightsWithCaching on what the request has read; a
\* cache hit and a failed generation answer the request.
GenerateCompute(r) ==
    /\ probe.op = "requests"
    /\ probe.request[r].pc = "read"
    /\ \E scripts \in Scenarios :
       \E result \in {generateInsightsWithCaching(probe.request[r].allTransactions,
                                                  probe.request[r].existingInsights,
                                                  probe.request[r].lastGenerated,
                                                  scripts, now)} :
         IF ~result.ok
         THEN probe' = [probe EXCEPT !.request[r].pc = "done", !.request[r].status = 500]
         ELSE IF result.fromCache
         THEN probe' = [probe EXCEPT !.request[r].pc = "done", !.request[r].status = 200,
                                     !.request[r].fromCache = TRUE]
         ELSE \E insights \in result.outcomes :
                  probe' = [probe EXCEPT !.request[r].pc = "computed",
                                         !.request[r].insights = insights,
                                         !.request[r].generatedAt = result.generatedAt]
    /\ UNCHANGED <<now, accounts, transactions, insightStore, response, outcome, lastFresh>>

\* Lines 86-135: the batch is written in one transaction and the request is
\* answered, with a warning when the write failed.
GenerateWrite(r, dbOk) ==
    /\ probe.op = "requests"
    /\ probe.request[r].pc = "computed"
    /\ \E rows \in {Rows(probe.request[r].insights, probe.request[r].generatedAt)} :
         /\ insightStore' = insightStore \o dbTransaction(rows, dbOk)
         /\ probe' = [probe EXCEPT
                         !.request[r].pc = "done", !.request[r].status = 200,
                         !.batches =
                             IF dbOk /\ rows # <<>>
                             THEN Append(@, [request |-> r,
                                             existing |-> probe.request[r].existingInsights,
                                             rows |-> rows])
                             ELSE @]
    /\ UNCHANGED <<now, accounts, transactions, response, outcome, lastFresh>>

NextConcurrent ==
    \/ Tick
    \/ \E r \in Requests : GenerateRead(r)
    \/ \E r \in Requests : GenerateCompute(r)
    \/ \E r \in Requests, dbOk \in BOOLEAN : GenerateWrite(r, dbOk)

SpecConcurrent == InitConcurrent /\ [][NextConcurrent]_vars

\* C28: of two generate requests of one user that overlap in time at most
\* one regenerates and persists a batch: the store never holds two batches
\* made from the same state of the store.
C28_OneBatchPerStoreState ==
    (probe.op = "requests")
        => \A i, j \in 1..Len(probe.batches) :
               i # j => probe.batches[i].existing # probe.batches[j].existing

----------------------------------------------------------------------------
(* One call of generateInsightsWithCaching, step by step: the cache policy *)
(* and the empty list answer at once; otherwise the three flows start      *)
(* their first model call together (Promise.all, insights.ts 267-271) and  *)
(* each goes through the retry loop of retryGroqCall on its own.           *)

Flows == {"spending", "budget", "savings"}

Calling(attempt) == [pc |-> "calling", attempt |-> attempt]

NotStarted == [pc |-> "none", attempt |-> 0]

StoredBefore == <<[createdAt |-> 0]>>

GenerationInputs ==
    [txs : {<<>>,
            <<[createdAt |-> 0, date |-> 0, amount |-> 25]>>,
            [i \in 1..NewTxThreshold |-> [createdAt |-> MaxTime, date |-> MaxTime, amount |-> 25]]},
     existingInsights : {<<>>, StoredBefore},
     lastGenerated : {NoDate, 0},
     at : {1, MaxTime}]

InitGeneration ==
    /\ now = 0
    /\ accounts = {}
    /\ transactions = <<>>
    /\ insightStore = <<>>
    /\ response = NoResponse
    /\ outcome = NoOutcome
    /\ lastFresh = NoDate
    /\ \E input \in GenerationInputs :
         /\ (input.existingInsights = <<>>) <=> (input.lastGenerated = NoDate)
         /\ probe = [op |-> "generation", input |-> input, started |-> FALSE,
                     fromCache |-> FALSE, completed |-> "no", calls |-> 0,
                     flow |-> [f \in Flows |-> NotStarted]]

\* Promise.all of the three flows: rejected as soon as one flow has rejected,
\* fulfilled when all three have resolved.
PromiseAllState(flow) ==
    IF \E f \in Flows : flow[f].pc = "rejected" THEN "failed"
    ELSE IF \A f \in Flows : flow[f].pc = "resolved" THEN "ok"
    ELSE "no"

\* insights.ts 340-368 and 254-271: a cache hit and an empty transaction
\* list complete without a model call; otherwise every flow issues its
\* first call.
StartGeneration ==
    /\ probe.op = "generation"
    /\ ~probe.started
    /\ \E input \in {probe.input} :
         IF \/ GeneratedRecently(input.existingInsights, input.lastGenerated, input.at)
            \/ FewNewTransactions(input.txs, input.lastGenerated)
         THEN probe' = [probe EXCEPT !.started = TRUE, !.fromCache = TRUE,
                                     !.completed = "ok"]
         ELSE IF Len(input.txs) = 0
         THEN probe' = [probe EXCEPT !.started = TRUE, !.completed = "ok"]
         ELSE probe' = [probe EXCEPT !.started = TRUE,
                                     !.flow = [f \in Flows |-> Calling(0)],
                                     !.calls = Cardinality(Flows)]
    /\ UNCHANGED <<now, accounts, transactions, insightStore, response, outcome, lastFresh>>

\* A variant of the last-attempt test that allows one attempt more.
LastAttemptLate(attempt) == attempt = maxRetries + 1

\* client.ts 134: the attempt after which retryGroqCall gives up.
LastAttempt(attempt) == attempt = maxRetries

\* The flow record after its model call has returned a completion: the flow
\* resolves when the completion parses and validates, and rejects otherwise
\* (parseAIResponse is outside the retry loop).
AfterReturn(flowState, usable) ==
    [flowState EXCEPT !.pc = IF usable THEN "resolved" ELSE "rejected"]

\* The flow record after its model call has failed: the flow rejects after
\* the last attempt and waits for the backoff delay otherwise.
AfterFailure(flowState) ==
    [flowState EXCEPT !.pc = IF LastAttempt(flowState.attempt) THEN "rejected" ELSE "backoff"]

\* The generation after flow f has moved to flowState.
WithFlow(f, flowState) ==
    LET flow == [probe.flow EXCEPT ![f] = flowState]
    IN  [probe EXCEPT !.flow = flow,
                      !.completed = IF @ = "no" THEN PromiseAllState(flow) ELSE @]

\* client.ts 130 and insights.ts 55-66: the model call of flow f returns.
CallReturns(f, usable) ==
    /\ probe.op = "generation"
    /\ probe.flow[f].pc = "calling"
    /\ probe' = WithFlow(f, AfterReturn(probe.flow[f], usable))
    /\ UNCHANGED <<now, accounts, transactions, insightStore, response, outcome, lastFresh>>

\* client.ts 131-141: the model call of flow f fails.
CallFails(f) ==
    /\ probe.op = "generation"
    /\ probe.flow[f].pc = "calling"
    /\ probe' = WithFlow(f, AfterFailure(probe.flow[f]))
    /\ UNCHANGED <<now, accounts, transactions, insightStore, response, outcome, lastFresh>>

\* The model call of flow f returns or fails.
CallEnds(f) ==
    \/ \E usable \in BOOLEAN : CallReturns(f, usable)
    \/ CallFails(f)

\* client.ts 139-140 and 128-130: the backoff delay elapses and the next
\* attempt issues a model call.
BackoffElapses(f) ==
    /\ probe.op = "generation"
    /\ probe.flow[f].pc = "backoff"
    /\ probe' = [probe EXCEPT !.flow[f] = Calling(@.attempt + 1), !.calls = @ + 1]
    /\ UNCHANGED <<now, accounts, transactions, insightStore, response, outcome, lastFresh>>

NextGeneration ==
    \/ StartGeneration
    \/ \E f \in Flows : CallEnds(f)
    \/ \E f \in Flows : BackoffElapses(f)

\* The event loop runs the call, every model call returns or fails, and
\* every timer fires.
FairGeneration ==
    /\ WF_vars(StartGeneration)
    /\ \A f \in Flows : WF_vars(CallEnds(f))
    /\ \A f \in Flows : WF_vars(BackoffElapses(f))

SpecGeneration == InitGeneration /\ [][NextGeneration]_vars /\ FairGeneration

Generated == probe.started /\ ~probe.fromCache /\ Len(probe.input.txs) > 0

\* C30: every generation eventually completes, with success or failure; one
\* that runs the flows has then made at least 3 model calls and never makes
\* more than 12, and a cache hit or an empty list makes no model call.
C30_CompletesWithThreeToTwelveCalls ==
    /\ <>(probe.completed # "no")
    /\ [](probe.calls <= Cardinality(Flows) * (maxRetries + 1))
    /\ []((probe.completed # "no" /\ Generated) => probe.calls >= Cardinality(Flows))
    /\ []((probe.started /\ ~Generated) => (probe.calls = 0 /\ probe.completed = "ok"))

C30_Witness ==
    /\ probe.op = "generation"
    /\ Generated
    /\ probe.completed = "failed"
    /\ probe.calls = 12

====
